---- MODULE Spec2Model ----
(***************************************************************************)
(* Receipt trie engine and proof validation pipeline of the                *)
(* transaction-receipt-relayer.                                            *)
(*                                                                         *)
(* Byte strings are sequences of elements.  An element is either a         *)
(* literal byte <<b>> (b in 0..255) or a keccak digest <<"keccak", p>> of  *)
(* the byte string p, 32 bytes wide, or a run <<"run", b, n>> of n >= 2    *)
(* equal bytes b.  keccak is thereby collision free.                       *)
(***************************************************************************)
EXTENDS Integers, Sequences, FiniteSets, TLC

VARIABLES trie, inserted, lastOp, event_proof, result, input, output,
          pallet, db, client, processor

vars == <<trie, inserted, lastOp, event_proof, result, input, output,
          pallet, db, client, processor>>

\* ---------------------------------------------------------------- bounds
MaxKeys == 4
MaxChain == 7
MaxReceipts == 3
MaxPath == 4

KeyBytes == {0, 1}

ShortValue == << <<5>> >>
LongValue == [i \in 1..32 |-> <<170>>]
Values == {ShortValue, LongValue}

\* the keys of at most two bytes over KeyBytes, and one key whose first
\* nibble is not 0
Keys ==
    {<<>>, <<16>>} \cup {<<a>> : a \in KeyBytes}
                   \cup {<<a, b>> : a \in KeyBytes, b \in KeyBytes}

\* ------------------------------------------------------------- utilities
None == <<>>
Some(x) == <<x>>

Min(a, b) == IF a < b THEN a ELSE b

\* ---------------------------------------------------------------- Nibbles
\* hex_data of a terminated path ends with the terminator 16.
RECURSIVE from_raw(_, _)
from_raw(raw, is_leaf) ==
    IF raw = <<>> THEN (IF is_leaf THEN <<16>> ELSE <<>>)
    ELSE <<Head(raw) \div 16, Head(raw) % 16>> \o from_raw(Tail(raw), is_leaf)

at(n, i) == IF i < Len(n) THEN n[i + 1] ELSE 16

slice(n, start, end) == SubSeq(n, start + 1, end)

offset(n, index) == slice(n, index, Len(n))

common_prefix(a, b) ==
    LET m == Min(Len(a), Len(b))
        S == {i \in 0..m : \A j \in 1..i : a[j] = b[j]}
    IN  CHOOSE i \in S : \A j \in S : j <= i

truncate(n, len) == IF len < Len(n) THEN SubSeq(n, 1, len) ELSE n

pop(n) == IF n = <<>> THEN n ELSE SubSeq(n, 1, Len(n) - 1)

is_leaf(n) == n # <<>> /\ n[Len(n)] = 16

encode_raw(n) ==
    LET hex == IF is_leaf(n) THEN SubSeq(n, 1, Len(n) - 1) ELSE n
    IN  [i \in 1..(Len(hex) \div 2) |-> hex[2 * i - 1] * 16 + hex[2 * i]]

\* ------------------------------------------------------------------- Node
Empty == [t |-> "Empty"]
Panic == [t |-> "Panic"]

from_leaf(key, value) == [t |-> "Leaf", key |-> key, value |-> value]

from_extension(prefix, node) == [t |-> "Extension", prefix |-> prefix, node |-> node]

from_branch(children, value) == [t |-> "Branch", children |-> children, value |-> value]

empty_children == [i \in 1..16 |-> Empty]

BranchNode_insert_no_value(branch, i, n) ==
    IF branch.t # "Branch" THEN Panic
    ELSE IF i = 16 THEN branch
    ELSE [branch EXCEPT !.children[i + 1] = n]

BranchNode_insert(branch, i, n) ==
    IF branch.t # "Branch" THEN Panic
    ELSE IF i = 16
    THEN IF n.t = "Leaf" THEN [branch EXCEPT !.value = Some(n.value)] ELSE Panic
    ELSE [branch EXCEPT !.children[i + 1] = n]

\* ---------------------------------------------------------------- insert
\* The extension created for the rest of a partly shared prefix; it is pushed
\* to the queue and turned into a branch on the next iteration.
split_rest_off_by_one(prefix, match_index, sub_node) ==
    from_extension(offset(prefix, match_index - 1), sub_node)

split_rest(prefix, match_index, sub_node) ==
    from_extension(offset(prefix, match_index), sub_node)

prefix_tail_always_extension(prefix, sub_node) ==
    from_extension(offset(prefix, 1), sub_node)

\* The child put under prefix.at(0) when an Extension that shares nothing with
\* the key becomes a Branch: the sub node itself when the prefix had one nibble.
prefix_tail(prefix, sub_node) ==
    IF Len(prefix) = 1 THEN sub_node
    ELSE from_extension(offset(prefix, 1), sub_node)

\* Part 1 of insert_at_iterative: find the place, restructuring on the way.
RECURSIVE insert_find(_, _, _)
insert_find(queue, partial, value) ==
    LET index == Len(queue)
        node == queue[index]
    IN
    CASE node.t = "Empty" ->
           [queue |-> [queue EXCEPT ![index] = from_leaf(partial, value)],
            partial |-> partial]
      [] node.t = "Leaf" ->
           LET old_partial == node.key
               match_index == common_prefix(partial, old_partial)
               b0 == from_branch(empty_children, None)
               b1 == BranchNode_insert(b0, at(old_partial, match_index),
                        from_leaf(offset(old_partial, match_index + 1), node.value))
               b2 == BranchNode_insert(b1, at(partial, match_index),
                        from_leaf(offset(partial, match_index + 1), value))
           IN
           IF match_index = Len(old_partial)
           THEN [queue |-> [queue EXCEPT ![index] = from_leaf(old_partial, value)],
                 partial |-> partial]
           ELSE IF match_index = 0
           THEN [queue |-> [queue EXCEPT ![index] = b2], partial |-> partial]
           ELSE [queue |-> [queue EXCEPT ![index] =
                              IF b2 = Panic THEN Panic
                              ELSE from_extension(slice(partial, 0, match_index), b2)],
                 partial |-> partial]
      [] node.t = "Branch" ->
           IF at(partial, 0) = 16
           THEN [queue |-> [queue EXCEPT ![index] = [node EXCEPT !.value = Some(value)]],
                 partial |-> partial]
           ELSE insert_find(Append(queue, node.children[at(partial, 0) + 1]),
                            offset(partial, 1), value)
      [] node.t = "Extension" ->
           LET prefix == node.prefix
               sub_node == node.node
               match_index == common_prefix(partial, prefix)
           IN
           IF match_index = 0
           THEN LET b == BranchNode_insert(from_branch(empty_children, None),
                            at(prefix, 0),
                            prefix_tail(prefix, sub_node))
                IN  IF b = Panic
                    THEN [queue |-> [queue EXCEPT ![index] = Panic], partial |-> partial]
                    ELSE insert_find([queue EXCEPT ![index] = b], partial, value)
           ELSE IF match_index = Len(prefix)
           THEN insert_find(Append(queue, sub_node), offset(partial, match_index), value)
           ELSE insert_find(
                   Append([queue EXCEPT ![index] =
                              [node EXCEPT !.prefix = slice(prefix, 0, match_index)]],
                          split_rest(prefix, match_index, sub_node)),
                   offset(partial, match_index), value)
      [] OTHER -> [queue |-> <<Panic>>, partial |-> partial]

\* Part 2 of insert_at_iterative: link the queue from the leaf to the root.
RECURSIVE insert_link(_, _)
insert_link(queue, partial) ==
    IF Len(queue) = 1 THEN queue[1]
    ELSE LET child == queue[Len(queue)]
             parent == queue[Len(queue) - 1]
             rest == SubSeq(queue, 1, Len(queue) - 2)
         IN
         IF child = Panic THEN Panic
         ELSE IF parent.t = "Branch"
         THEN LET key == at(partial, Len(partial) - 1)
              IN  IF partial = <<>> \/ key > 15 THEN Panic
                  ELSE insert_link(Append(rest, [parent EXCEPT !.children[key + 1] = child]),
                                   pop(partial))
         ELSE IF parent.t = "Extension"
         THEN IF Len(parent.prefix) > Len(partial) THEN Panic
              ELSE insert_link(Append(rest, [parent EXCEPT !.node = child]),
                               slice(partial, 0, Len(partial) - Len(parent.prefix)))
         ELSE Panic

insert_at_iterative(n, partial_key, value) ==
    LET found == insert_find(<<n>>, partial_key, value)
        consumed == slice(partial_key, 0, Len(partial_key) - Len(found.partial))
    IN  insert_link(found.queue, consumed)

\* IterativeTrie::insert
insert(root, key, value) == insert_at_iterative(root, from_raw(key, TRUE), value)

\* ------------------------------------------------------------------ iter
Start == -2
Doing == -1
End == 16

advance(tn) ==
    [tn EXCEPT !.status =
        IF tn.status = Start THEN Doing
        ELSE IF tn.status = Doing
        THEN (IF tn.node.t = "Branch" THEN 0 ELSE End)
        ELSE IF tn.status >= 0 /\ tn.status < 15 THEN tn.status + 1
        ELSE End]

TraceNode(node) == [node |-> node, status |-> Start]

iter(root) == [nibble |-> <<>>, nodes |-> <<TraceNode(root)>>]

\* The path when the iterator enters child i of a branch.
child_nibble_no_pop(nibble, i) == Append(nibble, i)

child_nibble(nibble, i) ==
    IF i = 0 THEN Append(nibble, 0) ELSE Append(pop(nibble), i)

\* One turn of the loop of TrieIterator::next; item is Some(<<key, value>>)
\* when the turn returns a pair.
iter_turn(it) ==
    LET last == Len(it.nodes)
        now == it.nodes[last]
        advanced == [it.nodes EXCEPT ![last] = advance(now)]
        popped == SubSeq(advanced, 1, last - 1)
        node == now.node
        cur_len == Len(it.nibble)
    IN
    CASE now.status = End ->
           [nibble |-> CASE node.t = "Leaf" -> truncate(it.nibble, cur_len - Len(node.key))
                         [] node.t = "Extension" -> truncate(it.nibble, cur_len - Len(node.prefix))
                         [] node.t = "Branch" -> pop(it.nibble)
                         [] OTHER -> it.nibble,
            nodes |-> popped, item |-> None]
      [] now.status = Doing /\ node.t = "Extension" ->
           [nibble |-> it.nibble \o node.prefix,
            nodes |-> Append(advanced, TraceNode(node.node)), item |-> None]
      [] now.status = Doing /\ node.t = "Leaf" ->
           [nibble |-> it.nibble \o node.key, nodes |-> advanced,
            item |-> Some(<<encode_raw(it.nibble \o node.key), node.value>>)]
      [] now.status = Doing /\ node.t = "Branch" ->
           [nibble |-> it.nibble, nodes |-> advanced,
            item |-> IF node.value # None
                     THEN Some(<<encode_raw(it.nibble), node.value[1]>>) ELSE None]
      [] now.status >= 0 /\ now.status <= 15 /\ node.t = "Branch" ->
           [nibble |-> child_nibble(it.nibble, now.status),
            nodes |-> Append(advanced, TraceNode(node.children[now.status + 1])),
            item |-> None]
      [] node.t = "Empty" ->
           [nibble |-> it.nibble, nodes |-> popped, item |-> None]
      [] OTHER ->
           [nibble |-> it.nibble, nodes |-> advanced, item |-> None]

\* A turn of the loop with the pairs returned so far; no turn is taken once
\* the stack of nodes is empty (next() returns None).
iter_step(st) ==
    IF st.nodes = <<>> THEN st
    ELSE LET r == iter_turn([nibble |-> st.nibble, nodes |-> st.nodes])
         IN  [nibble |-> r.nibble, nodes |-> r.nodes, out |-> st.out \o r.item]

\* 2^lvl turns of the loop
RECURSIVE iter_run(_, _)
iter_run(st, lvl) ==
    IF st.nodes = <<>> THEN st
    ELSE IF lvl = 0 THEN iter_step(st)
    ELSE iter_run(iter_run(st, lvl - 1), lvl - 1)

\* The pairs that repeated calls of next() yield until it returns None.
RECURSIVE iter_collect(_, _)
iter_collect(st, lvl) ==
    LET after == iter_run(st, lvl)
    IN  IF after.nodes = <<>> THEN after.out ELSE iter_collect(after, lvl + 1)

iter_all(root) ==
    iter_collect([nibble |-> <<>>, nodes |-> iter(root).nodes, out |-> <<>>], 0)

\* ------------------------------------------------------------ byte strings
Bytes(ints) == [i \in DOMAIN ints |-> <<ints[i]>>]

IsDigest(e) == Len(e) = 2

IsRun(e) == Len(e) = 3 /\ e[1] = "run"

Run(b, n) == << <<"run", b, n>> >>

\* number of bytes of an element: a digest is 32 bytes wide, a run as wide as
\* it is long
ElementWidth(e) == IF IsDigest(e) THEN 32 ELSE IF IsRun(e) THEN e[3] ELSE 1

RECURSIVE WideBytes(_, _)
WideBytes(bs, S) ==
    IF S = {} THEN 0
    ELSE LET i == CHOOSE j \in S : TRUE
         IN  ElementWidth(bs[i]) - 1 + WideBytes(bs, S \ {i})

\* number of bytes of a byte string
Width(bs) == Len(bs) + WideBytes(bs, {i \in DOMAIN bs : Len(bs[i]) # 1})

keccak(bs) == << <<"keccak", bs>> >>

Zeros(n) == [i \in 1..n |-> <<0>>]

PanicBytes == << <<"panic", 0, 0>> >>

EMPTY_STRING_CODE == 128

RECURSIVE Concat(_)
Concat(seqs) == IF seqs = <<>> THEN <<>> ELSE Head(seqs) \o Concat(Tail(seqs))

\* H256::from_slice: copies the slice to the front of 32 zero bytes
H256_from_slice(bs) ==
    IF Width(bs) > 32 THEN PanicBytes ELSE bs \o Zeros(32 - Width(bs))

\* -------------------------------------------------------------------- RLP
RECURSIVE be_bytes(_)
be_bytes(n) == IF n = 0 THEN <<>> ELSE Append(be_bytes(n \div 256), n % 256)

length_of_length(payload_length) ==
    IF payload_length < 56 THEN 1 ELSE 1 + Len(be_bytes(payload_length))

Header_encode(list, payload_length) ==
    IF payload_length < 56
    THEN Bytes(<<(IF list THEN 192 ELSE 128) + payload_length>>)
    ELSE LET be == be_bytes(payload_length)
         IN  Bytes(<<(IF list THEN 247 ELSE 183) + Len(be)>> \o be)

IsSingleLowByte(bs) == Len(bs) = 1 /\ Len(bs[1]) = 1 /\ bs[1][1] < 128

\* Encodable for [u8]
bytes_encode(bs) ==
    IF IsSingleLowByte(bs) THEN bs ELSE Header_encode(FALSE, Width(bs)) \o bs

bytes_length(bs) ==
    IF IsSingleLowByte(bs) THEN 1 ELSE length_of_length(Width(bs)) + Width(bs)

\* Encodable for H256 (a wrapper of [u8; 32])
H256_encode(h) == Header_encode(FALSE, 32) \o h

H256_length == 33

rlp_node(rlp) == IF Width(rlp) < 32 THEN rlp ELSE keccak(rlp)

\* ------------------------------------------------------- trie node encoders
\* the flag of an odd path left out of the first byte of a path without
\* the leaf flag
encode_path_leaf_no_odd_flag(hex_data, leaf) ==
    LET odd_nibbles == Len(hex_data) % 2 # 0
        first == IF leaf /\ odd_nibbles THEN 48 + hex_data[1]
                 ELSE IF leaf THEN 32
                 ELSE IF odd_nibbles THEN hex_data[1]
                 ELSE 0
        start == IF odd_nibbles THEN 1 ELSE 0
    IN  Bytes(<<first>> \o
              [i \in 1..(Len(hex_data) \div 2) |->
                  hex_data[start + 2 * i - 1] * 16 + hex_data[start + 2 * i]])

encode_path_leaf(hex_data, leaf) ==
    LET odd_nibbles == Len(hex_data) % 2 # 0
        first == IF leaf /\ odd_nibbles THEN 48 + hex_data[1]
                 ELSE IF leaf THEN 32
                 ELSE IF odd_nibbles THEN 16 + hex_data[1]
                 ELSE 0
        start == IF odd_nibbles THEN 1 ELSE 0
    IN  Bytes(<<first>> \o
              [i \in 1..(Len(hex_data) \div 2) |->
                  hex_data[start + 2 * i - 1] * 16 + hex_data[start + 2 * i]])

encode_compact(n) ==
    IF is_leaf(n) THEN encode_path_leaf(SubSeq(n, 1, Len(n) - 1), TRUE)
    ELSE encode_path_leaf(n, FALSE)

LeafEncoder_encode(key, value) ==
    LET payload_length == bytes_length(key) + bytes_length(value)
    IN  rlp_node(Header_encode(TRUE, payload_length) \o bytes_encode(key) \o bytes_encode(value))

\* the path of the extension encoded with the leaf flag
ExtensionNode_encode_leaf_flag(prefix, pointer) ==
    LET path == encode_path_leaf(prefix, TRUE)
        payload_length == bytes_length(path) + H256_length
    IN  rlp_node(Header_encode(TRUE, payload_length) \o bytes_encode(path) \o H256_encode(pointer))

ExtensionNode_encode(prefix, pointer) ==
    LET path == encode_path_leaf(prefix, FALSE)
        payload_length == bytes_length(path) + H256_length
    IN  rlp_node(Header_encode(TRUE, payload_length) \o bytes_encode(path) \o H256_encode(pointer))

BranchNode_header(branches) ==
    1 + 33 * Cardinality({i \in 1..16 : branches[i] # None})
      + Cardinality({i \in 1..16 : branches[i] = None})

\* the bytes BranchNode::encode writes for one of the sixteen branches
BranchNode_encode_slot(branch) ==
    IF branch # None THEN H256_encode(branch[1]) ELSE Bytes(<<EMPTY_STRING_CODE>>)

BranchNode_encode(branches, value) ==
    rlp_node(Header_encode(TRUE, BranchNode_header(branches))
             \o Concat([i \in 1..16 |-> BranchNode_encode_slot(branches[i])])
             \o (IF value # None THEN value[1] ELSE Bytes(<<EMPTY_STRING_CODE>>)))

\* a child's encoding as a slot of types::BranchNode
branch_slot(hash) == IF Width(hash) = 1 THEN None ELSE Some(H256_from_slice(hash))

\* PatriciaTrie::encode_node.  The code walks an explicit stack of
\* (node, depth, parent) in post-order; the recursion visits the children in
\* the same order and combines the same encodings.
RECURSIVE encode_node(_)
encode_node(n) ==
    CASE n.t = "Empty" -> Bytes(<<EMPTY_STRING_CODE>>)
      [] n.t = "Leaf" -> LeafEncoder_encode(encode_compact(n.key), n.value)
      [] n.t = "Branch" ->
           BranchNode_encode([i \in 1..16 |-> branch_slot(encode_node(n.children[i]))],
                             n.value)
      [] n.t = "Extension" ->
           ExtensionNode_encode(n.prefix, H256_from_slice(encode_node(n.node)))
      [] OTHER -> PanicBytes

root_hash(root) == H256_from_slice(encode_node(root))

\* ------------------------------------------------------------ merkle_proof
ProofExtension(prefix) == [t |-> "ExtensionNode", prefix |-> prefix]

ProofBranch(branches, index, value) ==
    [t |-> "BranchNode", branches |-> branches, index |-> index, value |-> value]

\* The loop of merkle_proof over the processing queue, which holds one node.
RECURSIVE merkle_proof_walk(_, _, _)
merkle_proof_walk(node, key, proof) ==
    CASE node.t = "Extension" ->
           merkle_proof_walk(node.node, offset(key, common_prefix(key, node.prefix)),
                             Append(proof, ProofExtension(node.prefix)))
      [] node.t = "Branch" ->
           LET index == at(key, 0)
               branches == [i \in 1..16 |->
                              IF i - 1 = index THEN None
                              ELSE branch_slot(encode_node(node.children[i]))]
           IN  IF index > 15 THEN [panic |-> TRUE, proof |-> proof]
               ELSE merkle_proof_walk(node.children[index + 1], offset(key, 1),
                                      Append(proof, ProofBranch(branches, index, node.value)))
      [] OTHER -> [panic |-> FALSE, proof |-> proof]

merkle_proof(root, proving_key) ==
    LET r == merkle_proof_walk(root, from_raw(proving_key, TRUE), <<>>)
    IN  [panic |-> r.panic, proof |-> r.proof, key |-> proving_key]

\* ------------------------------------------------------------- merkle_root
\* Nibbles::new of the verifier: two nibbles per byte, no terminator
Nibbles_new(raw) ==
    [i \in 1..(2 * Len(raw)) |->
        IF i % 2 = 1 THEN raw[(i + 1) \div 2] \div 16 ELSE raw[i \div 2] % 16]

\* first loop of merkle_root: the nibbles left for the leaf; the slice
\* panics when a frame strips more than is left
RECURSIVE key_after(_, _)
key_after(proof, key_slice) ==
    IF proof = <<>> THEN [panic |-> FALSE, key |-> key_slice]
    ELSE LET n == IF Head(proof).t = "ExtensionNode" THEN Len(Head(proof).prefix) ELSE 1
         IN  IF n > Len(key_slice) THEN [panic |-> TRUE, key |-> <<>>]
             ELSE key_after(Tail(proof), offset(key_slice, n))

\* second loop of merkle_root: from the last frame to the first
RECURSIVE fold_proof(_, _)
fold_proof(proof, hash) ==
    IF proof = <<>> THEN hash
    ELSE LET node == proof[Len(proof)]
             rest == SubSeq(proof, 1, Len(proof) - 1)
         IN  IF node.t = "ExtensionNode"
             THEN fold_proof(rest, H256_from_slice(ExtensionNode_encode(node.prefix, hash)))
             ELSE fold_proof(rest, H256_from_slice(BranchNode_encode(
                     [node.branches EXCEPT ![(node.index % 16) + 1] = Some(hash)],
                     node.value)))

\* the leaf without its last byte where that is a zero
merkle_root_zero_stripped(p, leaf) ==
    LET k == key_after(p.proof, Nibbles_new(p.key))
        kept == IF leaf # <<>> /\ leaf[Len(leaf)] = <<0>>
                THEN SubSeq(leaf, 1, Len(leaf) - 1) ELSE leaf
    IN  IF k.panic THEN [panic |-> TRUE, root |-> <<>>]
        ELSE [panic |-> FALSE,
              root |-> fold_proof(p.proof,
                          H256_from_slice(LeafEncoder_encode(encode_path_leaf(k.key, TRUE), kept)))]

merkle_root(p, leaf) ==
    LET k == key_after(p.proof, Nibbles_new(p.key))
    IN  IF k.panic THEN [panic |-> TRUE, root |-> <<>>]
        ELSE [panic |-> FALSE,
              root |-> fold_proof(p.proof,
                          H256_from_slice(LeafEncoder_encode(encode_path_leaf(k.key, TRUE), leaf)))]

\* ------------------------------------------------- integers and hashes
\* alloy_rlp's Encodable for unsigned integers: the big-endian bytes without
\* leading zeros, as a byte string
uint_encode(x) == bytes_encode(Bytes(be_bytes(x)))

bool_encode(b) == Bytes(<<IF b THEN 1 ELSE EMPTY_STRING_CODE>>)

\* U256::from(u64): 32 big-endian bytes
U256_from(x) ==
    LET be == be_bytes(x) IN Bytes([i \in 1..(32 - Len(be)) |-> 0] \o be)

\* U256::from(u64) of the value whose to_be_bytes() are be: the integers of
\* the model end at 2^31 - 1, the eight bytes reach every u64
U256_from_be_bytes(be) == Bytes([i \in 1..24 |-> 0] \o be)

\* the leading zeros kept
U256_encode_keep_zeros(u) == bytes_encode(u)

\* Encodable for U256: throws away the leading zeros
U256_encode(u) ==
    LET nonzero == {i \in 1..32 : u[i] # <<0>>}
        start == IF nonzero = {} THEN 33
                 ELSE CHOOSE i \in nonzero : \A j \in nonzero : i <= j
    IN  bytes_encode(SubSeq(u, start, 32))

\* H64(nonce.to_be_bytes())
H64_from(x) ==
    LET be == be_bytes(x) IN Bytes([i \in 1..(8 - Len(be)) |-> 0] \o be)

\* H256::hash of a value whose RLP encoding is rlp
H256_hash(rlp) == keccak(rlp)

H256_zero == Zeros(32)

\* ------------------------------------------------------ TransactionReceipt
Legacy == 0
EIP2930 == 1
EIP1559 == 2
EIP4844 == 3

Log_encode(log) ==
    LET topics == Concat([i \in DOMAIN log.topics |-> H256_encode(log.topics[i])])
        body == bytes_encode(log.address)
                \o Header_encode(TRUE, Width(topics)) \o topics
                \o bytes_encode(log.data)
    IN  Header_encode(TRUE, Width(body)) \o body

encode_fields(r) ==
    LET logs == Concat([i \in DOMAIN r.receipt.logs |-> Log_encode(r.receipt.logs[i])])
        body == bool_encode(r.receipt.success)
                \o uint_encode(r.receipt.cumulative_gas_used)
                \o bytes_encode(r.bloom)
                \o Header_encode(TRUE, Width(logs)) \o logs
    IN  Header_encode(TRUE, Width(body)) \o body

\* the type byte after the list instead of in front of it
TransactionReceipt_encode_type_last(r) ==
    IF r.receipt.tx_type = Legacy THEN encode_fields(r)
    ELSE encode_fields(r) \o Bytes(<<r.receipt.tx_type>>)

TransactionReceipt_encode(r) ==
    IF r.receipt.tx_type = Legacy THEN encode_fields(r)
    ELSE Bytes(<<r.receipt.tx_type>>) \o encode_fields(r)

\* alloy_rlp's length() for unsigned integers
uint_length(x) == IF x < 128 THEN 1 ELSE 1 + Len(be_bytes(x))

\* alloy_rlp's length() for bool
bool_length == 1

\* alloy_rlp::list_length of elements with the given lengths
RECURSIVE Sum(_)
Sum(lengths) == IF lengths = <<>> THEN 0 ELSE Head(lengths) + Sum(Tail(lengths))

list_length(lengths) == Sum(lengths) + length_of_length(Sum(lengths))

\* Encodable for Bloom has no length(): the trait's default encodes and counts
Bloom_length(bloom) == Width(bytes_encode(bloom))

\* Log::rlp_header and Log::length
Log_length(log) ==
    LET payload_length == bytes_length(log.address)
                          + list_length([i \in DOMAIN log.topics |-> H256_length])
                          + bytes_length(log.data)
    IN  length_of_length(payload_length) + payload_length

\* Encodable::length for TransactionReceipt
TransactionReceipt_length(r) ==
    LET fields == bool_length
                  + uint_length(r.receipt.cumulative_gas_used)
                  + Bloom_length(r.bloom)
                  + list_length([i \in DOMAIN r.receipt.logs |-> Log_length(r.receipt.logs[i])])
        length == IF r.receipt.tx_type = Legacy THEN fields ELSE fields + 1
    IN  length_of_length(length) + length

\* ------------------------------------------------------------- BlockHeader
IsSome(o) == o # None

\* Encodable for U256 has no length(): the trait's default encodes and counts
U256_length(u) == Width(U256_encode(u))

header_payload_length(h) ==
    H256_length
    + H256_length
    + bytes_length(h.beneficiary)
    + H256_length
    + H256_length
    + H256_length
    + Bloom_length(h.logs_bloom)
    + U256_length(h.difficulty)
    + U256_length(U256_from(h.number))
    + U256_length(U256_from(h.gas_limit))
    + U256_length(U256_from(h.gas_used))
    + uint_length(h.timestamp)
    + bytes_length(h.extra_data)
    + H256_length
    + bytes_length(H64_from(h.nonce))
    + (IF IsSome(h.base_fee_per_gas)
       THEN U256_length(U256_from(h.base_fee_per_gas[1]))
       ELSE IF IsSome(h.withdrawals_root) \/ IsSome(h.blob_gas_used)
               \/ IsSome(h.excess_blob_gas) \/ IsSome(h.parent_beacon_block_root)
       THEN 1 ELSE 0)
    + (IF IsSome(h.withdrawals_root) THEN H256_length
       ELSE IF IsSome(h.blob_gas_used) \/ IsSome(h.excess_blob_gas)
               \/ IsSome(h.parent_beacon_block_root)
       THEN 1 ELSE 0)
    + (IF IsSome(h.blob_gas_used)
       THEN U256_length(U256_from(h.blob_gas_used[1]))
       ELSE IF IsSome(h.excess_blob_gas) \/ IsSome(h.parent_beacon_block_root)
       THEN 1 ELSE 0)
    + (IF IsSome(h.excess_blob_gas)
       THEN U256_length(U256_from(h.excess_blob_gas[1]))
       ELSE IF IsSome(h.parent_beacon_block_root) THEN 1 ELSE 0)
    + (IF IsSome(h.parent_beacon_block_root) THEN H256_length ELSE 0)

EMPTY_LIST_CODE == 192

\* an absent optional leaves no byte, whatever follows it
encode_optionals_no_placeholder(h) ==
    (IF IsSome(h.base_fee_per_gas) THEN U256_encode(U256_from(h.base_fee_per_gas[1]))
     ELSE <<>>)
    \o (IF IsSome(h.withdrawals_root) THEN H256_encode(h.withdrawals_root[1]) ELSE <<>>)
    \o (IF IsSome(h.blob_gas_used) THEN U256_encode(U256_from(h.blob_gas_used[1]))
        ELSE <<>>)
    \o (IF IsSome(h.excess_blob_gas) THEN U256_encode(U256_from(h.excess_blob_gas[1]))
        ELSE <<>>)
    \o (IF IsSome(h.parent_beacon_block_root)
        THEN H256_encode(h.parent_beacon_block_root[1]) ELSE <<>>)

\* BlockHeader::encode, the optional fields after the nonce
encode_optionals(h) ==
    (IF IsSome(h.base_fee_per_gas) THEN U256_encode(U256_from(h.base_fee_per_gas[1]))
     ELSE IF IsSome(h.withdrawals_root) \/ IsSome(h.blob_gas_used)
             \/ IsSome(h.excess_blob_gas) \/ IsSome(h.parent_beacon_block_root)
     THEN Bytes(<<EMPTY_STRING_CODE>>) ELSE <<>>)
    \o (IF IsSome(h.withdrawals_root) THEN H256_encode(h.withdrawals_root[1])
        ELSE IF IsSome(h.blob_gas_used) \/ IsSome(h.excess_blob_gas)
                \/ IsSome(h.parent_beacon_block_root)
        THEN Bytes(<<EMPTY_STRING_CODE>>) ELSE <<>>)
    \o (IF IsSome(h.blob_gas_used) THEN U256_encode(U256_from(h.blob_gas_used[1]))
        ELSE IF IsSome(h.excess_blob_gas) \/ IsSome(h.parent_beacon_block_root)
        THEN Bytes(<<EMPTY_LIST_CODE>>) ELSE <<>>)
    \o (IF IsSome(h.excess_blob_gas) THEN U256_encode(U256_from(h.excess_blob_gas[1]))
        ELSE IF IsSome(h.parent_beacon_block_root)
        THEN Bytes(<<EMPTY_LIST_CODE>>) ELSE <<>>)
    \o (IF IsSome(h.parent_beacon_block_root)
        THEN H256_encode(h.parent_beacon_block_root[1]) ELSE <<>>)

BlockHeader_encode(h) ==
    Header_encode(TRUE, header_payload_length(h))
    \o H256_encode(h.parent_hash)
    \o H256_encode(h.ommers_hash)
    \o bytes_encode(h.beneficiary)
    \o H256_encode(h.state_root)
    \o H256_encode(h.transactions_root)
    \o H256_encode(h.receipts_root)
    \o bytes_encode(h.logs_bloom)
    \o U256_encode(h.difficulty)
    \o U256_encode(U256_from(h.number))
    \o U256_encode(U256_from(h.gas_limit))
    \o U256_encode(U256_from(h.gas_used))
    \o uint_encode(h.timestamp)
    \o bytes_encode(h.extra_data)
    \o H256_encode(h.mix_hash)
    \o bytes_encode(H64_from(h.nonce))
    \o encode_optionals(h)

\* ---------------------------------------------------------------- validate
\* the order of the checks swapped: the receipt hash before the block hash
validate_receipt_hash_first(ep) ==
    IF ep.transaction_receipt_hash
         # H256_hash(TransactionReceipt_encode(ep.transaction_receipt))
    THEN "IncorrectReceiptHash"
    ELSE IF ep.block_hash # H256_hash(BlockHeader_encode(ep.block_header))
    THEN "IncorrectBodyHash"
    ELSE LET r == merkle_root(ep.merkle_proof_of_receipt,
                              TransactionReceipt_encode(ep.transaction_receipt))
         IN  IF r.panic THEN "Abort"
             ELSE IF ep.block_header.receipts_root # r.root THEN "IncorrectReceiptRoot"
             ELSE "Ok"

\* EventProof::validate: the three checks in their order; a panic of
\* merkle_root aborts the call
validate(ep) ==
    IF ep.block_hash # H256_hash(BlockHeader_encode(ep.block_header))
    THEN "IncorrectBodyHash"
    ELSE IF ep.transaction_receipt_hash
              # H256_hash(TransactionReceipt_encode(ep.transaction_receipt))
    THEN "IncorrectReceiptHash"
    ELSE LET r == merkle_root(ep.merkle_proof_of_receipt,
                              TransactionReceipt_encode(ep.transaction_receipt))
         IN  IF r.panic THEN "Abort"
             ELSE IF ep.block_header.receipts_root # r.root THEN "IncorrectReceiptRoot"
             ELSE "Ok"

\* ----------------------------------------------------------- state machine
IsPrefix(a, b) == Len(a) <= Len(b) /\ SubSeq(b, 1, Len(a)) = a

\* a sorts before b: a is a proper prefix of b, or a is smaller at the first
\* position where they differ
KeyLess(a, b) ==
    LET cp == common_prefix(a, b)
    IN  \/ cp = Len(a) /\ cp < Len(b)
        \/ cp < Len(a) /\ cp < Len(b) /\ a[cp + 1] < b[cp + 1]

Put(m, k, v) == [x \in (DOMAIN m) \cup {k} |-> IF x = k THEN v ELSE m[x]]

\* the chains of the pallet tests
GOERLI_CHAIN == 5
MAINNET_CHAIN == 1
TypedChainIds == {GOERLI_CHAIN, MAINNET_CHAIN}

\* the submitter of the pallet tests and the account of the pallet
ALICE == "alice"
TREASURY == "treasury"

\* The storage of the pallet before any call: no receipt processed, no list
\* of watched contracts, every fee at the default of its ValueQuery; the
\* free balances of the submitter and of the pallet account.
Genesis(alice, treasury) ==
    [ProcessedReceipts |-> <<>>,
     ProcessedReceiptsHash |-> {},
     WatchedContracts |-> [c \in TypedChainIds |-> None],
     ProofDeposit |-> [c \in TypedChainIds |-> 0],
     ProofReward |-> [c \in TypedChainIds |-> 0],
     balances |-> [a \in {ALICE, TREASURY} |->
                      IF a = ALICE THEN alice ELSE treasury]]

\* The table blocks after create_tables.  The schema is not part of the
\* sources: block_height is a key of the table (unique) or it is not.  marked
\* is the history of the heights mark_block_processed has returned for and
\* marked_rows that of the rows that were in the table at those heights then.
NoBlocks == [unique |-> TRUE, blocks |-> <<>>, marked |-> {}, marked_rows |-> {}]

Init ==
    /\ trie = Empty
    /\ inserted = <<>>
    /\ lastOp = [op |-> "new"]
    /\ event_proof = None
    /\ result = "none"
    /\ input = None
    /\ output = None
    /\ pallet = Genesis(0, 0)
    /\ db = NoBlocks
    /\ client = None
    /\ processor = None

\* PatriciaTrie::insert on the trie of the state
Insert(k, v) ==
    /\ trie # Panic
    /\ (k \in DOMAIN inserted \/ Cardinality(DOMAIN inserted) < MaxKeys)
    /\ trie' = insert(trie, k, v)
    /\ inserted' = Put(inserted, k, v)
    /\ lastOp' = [op |-> "insert", replaced |-> k \in DOMAIN inserted,
                   greatest |-> k \notin DOMAIN inserted
                                /\ \A o \in DOMAIN inserted : KeyLess(o, k)]
    /\ UNCHANGED <<event_proof, result, input, output, pallet, db,
                 client, processor>>

Next == \E k \in Keys, v \in Values : Insert(k, v)

Spec == Init /\ [][Next]_vars

\* The test recursive_crash_test: every key a proper prefix of the next.
ZeroKey(n) == [i \in 1..n |-> 0]

ChainInsert(v) ==
    /\ trie # Panic
    /\ Cardinality(DOMAIN inserted) < MaxChain
    /\ inserted = <<>> \/ lastOp.op = "insert"
    /\ LET k == ZeroKey(Cardinality(DOMAIN inserted) + 1)
       IN  /\ trie' = insert(trie, k, v)
           /\ inserted' = Put(inserted, k, v)
           /\ lastOp' = [op |-> "insert", replaced |-> FALSE, greatest |-> TRUE]
    /\ UNCHANGED <<event_proof, result, input, output, pallet, db,
                 client, processor>>

NextChain == \E v \in Values : ChainInsert(v)

SpecChain == Init /\ [][NextChain]_vars

\* ------------------------------------------------------ structure of a trie
RECURSIVE Nodes(_)
Nodes(n) ==
    {n} \cup
    (CASE n.t = "Extension" -> Nodes(n.node)
       [] n.t = "Branch" -> UNION {Nodes(n.children[i]) : i \in 1..16}
       [] OTHER -> {})

\* ------------------------------------------------- receipts and proofs
\* transaction indices whose keys rlp(index) are one byte (0x80 for 0, the
\* byte itself up to 127) and two bytes (0x81, index)
ReceiptIndices == {0, 1, 128, 129}

\* alloy_rlp::encode(index)
index_key(i) == LET e == uint_encode(i) IN [j \in DOMAIN e |-> e[j][1]]

\* the receipts of the proof tests
TestReceipt(e) ==
    [bloom |-> Bytes([i \in 1..256 |-> e]),
     receipt |-> [tx_type |-> EIP1559, logs |-> <<>>,
                  cumulative_gas_used |-> e, success |-> TRUE]]

receipt_value(i) == TransactionReceipt_encode(TestReceipt(i))

TestHeader(receipts_root) ==
    [parent_hash |-> H256_zero, ommers_hash |-> H256_zero,
     beneficiary |-> Zeros(20), state_root |-> H256_zero,
     transactions_root |-> H256_zero, receipts_root |-> receipts_root,
     withdrawals_root |-> Some(H256_zero), logs_bloom |-> Zeros(256),
     difficulty |-> U256_from(0), number |-> 300, gas_limit |-> 30000,
     gas_used |-> 21000, timestamp |-> 1700, mix_hash |-> H256_zero, nonce |-> 0,
     base_fee_per_gas |-> Some(7), blob_gas_used |-> None,
     excess_blob_gas |-> None, parent_beacon_block_root |-> None,
     extra_data |-> <<>>]

\* a prefix longer than every key of a receipt
LongPrefix == <<8, 1, 8, 0, 0>>

\* PatriciaTrie::insert of the receipt of a transaction under rlp(index)
InsertReceipt(i) ==
    /\ trie # Panic
    /\ event_proof = None
    /\ index_key(i) \notin DOMAIN inserted
    /\ Cardinality(DOMAIN inserted) < MaxReceipts
    /\ trie' = insert(trie, index_key(i), receipt_value(i))
    /\ inserted' = Put(inserted, index_key(i), receipt_value(i))
    /\ lastOp' = [op |-> "insert", replaced |-> FALSE,
                   greatest |-> \A o \in DOMAIN inserted : KeyLess(o, index_key(i))]
    /\ UNCHANGED <<event_proof, result, input, output, pallet, db,
                 client, processor>>

\* An EventProof for the receipt of transaction i reaches validate().  The
\* proof comes from merkle_proof; each field is the one of the block or one
\* a sender can put in its place.
Validate(i, hd, bh, rh, pf) ==
    /\ trie # Panic
    /\ event_proof = None
    /\ index_key(i) \in DOMAIN inserted
    /\ LET honest == merkle_proof(trie, index_key(i))
           header == TestHeader(IF hd = "block" THEN root_hash(trie) ELSE H256_zero)
           receipt == TestReceipt(i)
           ep == [block_header |-> header,
                  block_hash |-> IF bh = "block"
                                 THEN H256_hash(BlockHeader_encode(header))
                                 ELSE H256_zero,
                  transaction_receipt |-> receipt,
                  transaction_receipt_hash |->
                      IF rh = "block" THEN H256_hash(TransactionReceipt_encode(receipt))
                      ELSE H256_zero,
                  merkle_proof_of_receipt |->
                      [key |-> honest.key,
                       proof |-> CASE pf = "block" -> honest.proof
                                   [] pf = "empty" -> <<>>
                                   [] OTHER -> <<ProofExtension(LongPrefix)>> \o honest.proof]]
       IN  /\ ~honest.panic
           /\ event_proof' = Some(ep)
           /\ result' = validate(ep)
    /\ lastOp' = [op |-> "validate", header |-> hd, block_hash |-> bh,
                   receipt_hash |-> rh, proof |-> pf]
    /\ UNCHANGED <<trie, inserted, input, output, pallet, db,
                 client, processor>>

Sent == {"block", "other"}

NextProof ==
    \/ \E i \in ReceiptIndices : InsertReceipt(i)
    \/ \E i \in ReceiptIndices, hd \in Sent, bh \in Sent, rh \in Sent,
          pf \in {"block", "empty", "overlong"} : Validate(i, hd, bh, rh, pf)

SpecProof == Init /\ [][NextProof]_vars

\* ------------------------------------------------------------ tampered leaves
\* Tries over four keys, one a prefix of two others, with a value shorter
\* than a hash and the receipt of transaction 0 as values.
TamperKeys == {<<0>>, <<0, 0>>, <<0, 1>>, <<1>>}
TamperValues == {ShortValue, receipt_value(0)}

\* the leaves a sender can claim: the values, another receipt, and the short
\* value followed by a zero byte
Leaves == TamperValues \cup {receipt_value(1), ShortValue \o Bytes(<<0>>)}

\* the proof of an inserted key, as merkle_proof returns it
ProofFor(k) == merkle_proof(trie, k)

\* ReceiptMerkleProof::merkle_root of the proof of key k with a claimed leaf
MerkleRoot(k, leaf) ==
    /\ trie # Panic
    /\ lastOp.op \in {"new", "insert"}
    /\ k \in DOMAIN inserted
    /\ ~ProofFor(k).panic
    /\ output' = merkle_root([key |-> ProofFor(k).key, proof |-> ProofFor(k).proof], leaf)
    /\ lastOp' = [op |-> "merkle_root", key |-> k, leaf |-> leaf]
    /\ UNCHANGED <<trie, inserted, event_proof, result, input, pallet, db,
                 client, processor>>

\* EventProof::validate of a proof whose header has the root of the trie and
\* whose hashes are those of its header and its receipt: the proof of key k
\* with the receipt of transaction j
ValidateReceipt(k, j) ==
    /\ trie # Panic
    /\ lastOp.op \in {"new", "insert"}
    /\ k \in DOMAIN inserted
    /\ ~ProofFor(k).panic
    /\ LET header == TestHeader(root_hash(trie))
           receipt == TestReceipt(j)
           ep == [block_header |-> header,
                  block_hash |-> H256_hash(BlockHeader_encode(header)),
                  transaction_receipt |-> receipt,
                  transaction_receipt_hash |->
                      H256_hash(TransactionReceipt_encode(receipt)),
                  merkle_proof_of_receipt |->
                      [key |-> ProofFor(k).key, proof |-> ProofFor(k).proof]]
       IN  result' = validate(ep)
    /\ lastOp' = [op |-> "validate", key |-> k, receipt |-> j]
    /\ UNCHANGED <<trie, inserted, event_proof, input, output, pallet, db,
                 client, processor>>

NextTamper ==
    \/ \E k \in TamperKeys, v \in TamperValues :
          lastOp.op \in {"new", "insert"} /\ Insert(k, v)
    \/ \E k \in TamperKeys, leaf \in Leaves : MerkleRoot(k, leaf)
    \/ \E k \in TamperKeys, j \in {0, 1} : ValidateReceipt(k, j)

SpecTamper == Init /\ [][NextTamper]_vars

\* ---------------------------------------------------------------- encoders
\* The encoders are functions of their argument: a behaviour starts with one
\* argument and one step applies the encoder to it.
TxTypes == {Legacy, EIP2930, EIP1559, EIP4844}

\* cumulative_gas_used with an RLP of one, two and three bytes
GasValues == {0, 1, 127, 128, 21000}

\* the log of tests::encode_legacy_receipt
TestLog ==
    [address |-> Bytes([i \in 1..20 |-> IF i = 20 THEN 17 ELSE 0]),
     topics |-> <<Bytes([i \in 1..32 |-> IF i = 31 THEN 222 ELSE IF i = 32 THEN 173 ELSE 0]),
                  Bytes([i \in 1..32 |-> IF i = 31 THEN 190 ELSE IF i = 32 THEN 239 ELSE 0])>>,
     data |-> Bytes(<<1, 0, 255>>)]

\* a log without topics and with n bytes of data
DataLog(n) ==
    [address |-> Zeros(20), topics |-> <<>>,
     data |-> IF n < 2 THEN Zeros(n) ELSE Run(0, n)]

\* with one log of 65243 data bytes and a one-byte cumulative_gas_used the four
\* fields of the receipt take 65535 bytes
DataSizes == {65242, 65243, 65244}

Receipt(t, s, g, logs) ==
    [bloom |-> Zeros(256),
     receipt |-> [tx_type |-> t, success |-> s, cumulative_gas_used |-> g, logs |-> logs]]

ReceiptInputs ==
    {Receipt(t, s, g, logs) :
        t \in TxTypes, s \in BOOLEAN, g \in GasValues,
        logs \in {<<>>, <<TestLog>>, <<DataLog(0), TestLog>>}}
    \cup {Receipt(t, TRUE, 1, <<DataLog(n)>>) : t \in TxTypes, n \in DataSizes}

\* headers of every fork: each optional field absent or present
HeaderInputs ==
    {[TestHeader(H256_zero) EXCEPT
         !.base_fee_per_gas = bf, !.withdrawals_root = wr, !.blob_gas_used = bg,
         !.excess_blob_gas = eg, !.parent_beacon_block_root = pr,
         !.number = n, !.extra_data = ed] :
        bf \in {None, Some(7)}, wr \in {None, Some(H256_zero)},
        bg \in {None, Some(0)}, eg \in {None, Some(131072)},
        pr \in {None, Some(H256_zero)},
        n \in {0, 300}, ed \in {<<>>, Bytes(<<1, 2>>)}}

\* nibble paths of at most MaxPath nibbles, with and without the leaf flag
NibbleValues == {0, 1, 15}

PathInputs ==
    {[hex_data |-> n, leaf |-> l] :
        n \in UNION {[1..len -> NibbleValues] : len \in 0..MaxPath}, l \in BOOLEAN}

\* to_be_bytes() of u64 values: every pattern of zero and non-zero bytes, the
\* last byte around 0x80
U64Inputs ==
    {high \o <<low>> : high \in [1..7 -> {0, 128}], low \in {0, 1, 127, 128, 255}}

CodecInputs ==
    {[kind |-> "receipt", v |-> r] : r \in ReceiptInputs}
    \cup {[kind |-> "u64", v |-> [be |-> x]] : x \in U64Inputs}
    \cup {[kind |-> "path", v |-> p] : p \in PathInputs}
    \cup {[kind |-> "header", v |-> h] : h \in HeaderInputs}

InitCodec ==
    /\ trie = Empty
    /\ inserted = <<>>
    /\ lastOp = [op |-> "new"]
    /\ event_proof = None
    /\ result = "none"
    /\ input \in CodecInputs
    /\ output = None
    /\ pallet = Genesis(0, 0)
    /\ db = NoBlocks
    /\ client = None
    /\ processor = None

\* TransactionReceipt::encode and TransactionReceipt::length of the argument
EncodeReceipt ==
    /\ input.kind = "receipt"
    /\ output = None
    /\ output' = Some([encoded |-> TransactionReceipt_encode(input.v),
                       length |-> TransactionReceipt_length(input.v)])
    /\ lastOp' = [op |-> "encode"]
    /\ UNCHANGED <<trie, inserted, event_proof, result, input, pallet, db,
                 client, processor>>

\* BlockHeader::encode and BlockHeader::header_payload_length of the argument
EncodeHeader ==
    /\ input.kind = "header"
    /\ output = None
    /\ output' = Some([encoded |-> BlockHeader_encode(input.v),
                       length |-> header_payload_length(input.v)])
    /\ lastOp' = [op |-> "encode"]
    /\ UNCHANGED <<trie, inserted, event_proof, result, input, pallet, db,
                 client, processor>>

\* Nibbles::encode_path_leaf of the argument
EncodePath ==
    /\ input.kind = "path"
    /\ output = None
    /\ output' = Some([encoded |-> encode_path_leaf(input.v.hex_data, input.v.leaf)])
    /\ lastOp' = [op |-> "encode"]
    /\ UNCHANGED <<trie, inserted, event_proof, result, input, pallet, db,
                 client, processor>>

\* U256::from of the argument and the encoding of the U256
EncodeU256 ==
    /\ input.kind = "u64"
    /\ output = None
    /\ output' = Some([u256 |-> U256_from_be_bytes(input.v.be),
                       encoded |-> U256_encode(U256_from_be_bytes(input.v.be))])
    /\ lastOp' = [op |-> "encode"]
    /\ UNCHANGED <<trie, inserted, event_proof, result, input, pallet, db,
                 client, processor>>

NextCodec ==
    \/ EncodeReceipt
    \/ EncodeU256
    \/ EncodePath
    \/ EncodeHeader

SpecCodec == InitCodec /\ [][NextCodec]_vars

\* ------------------------------------------------------------------ pallet
\* BoundedVec<H160, ConstU32<100>> of WatchedContracts, scaled down
MaxWatched == 2

\* the free balances the submitter and the pallet account start with
AliceEndowment == 1
TreasuryEndowment == 1

\* watched contract addresses
Contract1 == Run(17, 20)
Contract2 == Run(34, 20)
Contracts == {Contract1, Contract2}

AddressLog(a) == [address |-> a, topics |-> <<>>, data |-> <<>>]

\* the receipts of the finalized block: the first logs Contract2 and then
\* Contract1, the second Contract2 only
BlockReceipt(i) ==
    [bloom |-> Run(0, 256),
     receipt |-> [tx_type |-> IF i = 0 THEN EIP1559 ELSE Legacy, success |-> TRUE,
                  cumulative_gas_used |-> 21000 * (i + 1),
                  logs |-> IF i = 0 THEN <<AddressLog(Contract2), AddressLog(Contract1)>>
                           ELSE <<AddressLog(Contract2)>>]]

\* tests create_proof: the trie of the receipts of the block under rlp(index)
RECURSIVE insert_receipts(_, _)
insert_receipts(t, n) ==
    IF n = 0 THEN t
    ELSE insert(insert_receipts(t, n - 1), index_key(n - 1),
                TransactionReceipt_encode(BlockReceipt(n - 1)))

BlockTrie == insert_receipts(Empty, 2)

FinalizedHeader == TestHeader(root_hash(BlockTrie))

FinalizedHash == H256_hash(BlockHeader_encode(FinalizedHeader))

\* T::LightClient::finalized_execution_blocks: the light client of GOERLI
\* holds the hash of the finalized block, the one of MAINNET holds nothing
finalized_execution_blocks(typed_chain_id, number) ==
    IF typed_chain_id = GOERLI_CHAIN /\ number = TestHeader(H256_zero).number
    THEN Some(FinalizedHash)
    ELSE None

\* the EventProof of receipt i of a block with the given header, as the
\* relayer builds it
EventProofFrom(header, receipt, honest) ==
    [block_header |-> header,
     block_hash |-> H256_hash(BlockHeader_encode(header)),
     transaction_receipt |-> receipt,
     transaction_receipt_hash |-> H256_hash(TransactionReceipt_encode(receipt)),
     merkle_proof_of_receipt |-> [key |-> honest.key, proof |-> honest.proof]]

ProofOf(header, i) ==
    EventProofFrom(header, BlockReceipt(i), merkle_proof(BlockTrie, index_key(i)))

\* The byte vectors submitted.  from_utf8 fails on the first, serde_json on
\* the second (vec![1] of the tests); the others are the JSON of an EventProof.
NotUtf8 == "not UTF-8"
NotJson == "not JSON"
\* a block the light client has not finalized
UnknownBlock == "unknown block"
\* another block at the height of the finalized one
ForkBlock == "fork block"
\* the receipt hash is not the hash of the receipt
WrongReceiptHash == "wrong receipt hash"
\* the proof of receipt 0 with receipt 1 in the place of receipt 0
SwappedReceipt == "swapped receipt"
\* a proof whose first node holds more nibbles than the key
OverlongProof == "overlong proof"
\* the proofs of the two receipts of the finalized block
ValidProof0 == "receipt 0"
ValidProof1 == "receipt 1"
JsonProofs ==
    {UnknownBlock, ForkBlock, WrongReceiptHash, SwappedReceipt, OverlongProof,
     ValidProof0, ValidProof1}
EventProofIds == {NotUtf8, NotJson} \cup JsonProofs

\* the header a proof is sent with
HeaderOf(id, header) ==
    CASE id = UnknownBlock -> [header EXCEPT !.number = @ + 1]
      [] id = ForkBlock -> [header EXCEPT !.gas_used = 0]
      [] OTHER -> header

\* the proof as it is sent
Tampered(id, ep, other) ==
    CASE id = WrongReceiptHash -> [ep EXCEPT !.transaction_receipt_hash = H256_zero]
      [] id = SwappedReceipt ->
           [ep EXCEPT !.transaction_receipt = other,
                      !.transaction_receipt_hash =
                          H256_hash(TransactionReceipt_encode(other))]
      [] id = OverlongProof ->
           [ep EXCEPT !.merkle_proof_of_receipt.proof =
                          <<ProofExtension(LongPrefix)>> \o @]
      [] OTHER -> ep

EventProofs ==
    [id \in JsonProofs |->
        Tampered(id, ProofOf(HeaderOf(id, FinalizedHeader),
                             IF id = ValidProof1 THEN 1 ELSE 0),
                 BlockReceipt(1))]

\* core::str::from_utf8 of the submitted bytes
from_utf8(id) == IF id = NotUtf8 THEN None ELSE Some(id)

\* serde_json::from_str::<EventProof> of the text
from_str(id) == IF id \in JsonProofs THEN Some(EventProofs[id]) ELSE None

\* EventProof::validate of the submitted proofs
Validated == [id \in JsonProofs |-> validate(EventProofs[id])]

\* only the first log compared
is_contract_address_in_log_first_only(receipt, address) ==
    /\ receipt.receipt.logs # <<>>
    /\ receipt.receipt.logs[1].address = address

\* Pallet::is_contract_address_in_log
is_contract_address_in_log(receipt, address) ==
    \E i \in DOMAIN receipt.receipt.logs : receipt.receipt.logs[i].address = address

\* Currency::transfer with AllowDeath: fails when the source cannot cover the
\* amount, and then moves nothing
transfer(balances, source, dest, value) ==
    IF balances[source] < value
    THEN [ok |-> FALSE, balances |-> balances]
    ELSE [ok |-> TRUE,
          balances |-> [a \in DOMAIN balances |->
                          IF a = source THEN balances[a] - value
                          ELSE IF a = dest THEN balances[a] + value
                          ELSE balances[a]]]

\* a call that returns an error, or panics, leaves the storage as it was
Rejected(st, error) == [result |-> error, storage |-> st, events |-> <<>>]

\* the addresses of the list, in order, that a log of the receipt carries
MatchingAddresses(receipt, addresses) ==
    SelectSeq(addresses, LAMBDA address : is_contract_address_in_log(receipt, address))

\* the watched-list check left out: a chain without a list rewards nothing
record_receipt_no_list_check(st, typed_chain_id, ep) ==
    LET addresses == st.WatchedContracts[typed_chain_id]
        key == <<typed_chain_id, ep.block_header.number, ep.transaction_receipt_hash>>
        matches == IF addresses = None THEN <<>>
                   ELSE MatchingAddresses(ep.transaction_receipt, addresses[1])
    IN  IF matches = <<>>
        THEN [error |-> None, rewarded |-> FALSE, storage |-> st, events |-> <<>>]
        ELSE [error |-> None, rewarded |-> TRUE,
              storage |-> [st EXCEPT
                 !.ProcessedReceipts = Put(@, key, ep.transaction_receipt.receipt.logs),
                 !.ProcessedReceiptsHash =
                     @ \cup {<<typed_chain_id, ep.transaction_receipt_hash>>}],
              events |-> [i \in DOMAIN matches |->
                            [event |-> "SubmitProcessedReceipts",
                             typed_chain_id |-> typed_chain_id,
                             block_number |-> ep.block_header.number,
                             receipt_hash |-> ep.transaction_receipt_hash]]]

\* submit_proof, the block that computes rewarded: for a receipt that is not
\* processed, every watched address found in the logs inserts the receipt
\* and deposits an event
record_receipt(st, typed_chain_id, ep) ==
    LET addresses == st.WatchedContracts[typed_chain_id]
        key == <<typed_chain_id, ep.block_header.number, ep.transaction_receipt_hash>>
        matches == MatchingAddresses(ep.transaction_receipt, addresses[1])
    IN  IF addresses = None
        THEN [error |-> Some("NoMonitoredAddressesForChain"), rewarded |-> FALSE,
              storage |-> st, events |-> <<>>]
        ELSE IF matches = <<>>
        THEN [error |-> None, rewarded |-> FALSE, storage |-> st, events |-> <<>>]
        ELSE [error |-> None, rewarded |-> TRUE,
              storage |-> [st EXCEPT
                 !.ProcessedReceipts = Put(@, key, ep.transaction_receipt.receipt.logs),
                 !.ProcessedReceiptsHash =
                     @ \cup {<<typed_chain_id, ep.transaction_receipt_hash>>}],
              events |-> [i \in DOMAIN matches |->
                            [event |-> "SubmitProcessedReceipts",
                             typed_chain_id |-> typed_chain_id,
                             block_number |-> ep.block_header.number,
                             receipt_hash |-> ep.transaction_receipt_hash]]]

\* submit_proof after the proof is verified.  The result of the transfer is
\* looked at by a debug_assert only: a build with debug assertions panics
\* when the transfer fails, a build without them returns Ok.
settle(st, validator, typed_chain_id, ep, debug_assertions) ==
    LET processed == <<typed_chain_id, ep.transaction_receipt_hash>>
                         \in st.ProcessedReceiptsHash
        rec == IF processed
               THEN [error |-> None, rewarded |-> FALSE, storage |-> st,
                     events |-> <<>>]
               ELSE record_receipt(st, typed_chain_id, ep)
        success == IF rec.rewarded
                   THEN transfer(rec.storage.balances, TREASURY, validator,
                                 st.ProofReward[typed_chain_id])
                   ELSE transfer(rec.storage.balances, validator, TREASURY,
                                 st.ProofDeposit[typed_chain_id])
    IN  IF rec.error # None THEN Rejected(st, rec.error[1])
        ELSE IF ~success.ok /\ debug_assertions THEN Rejected(st, "Abort")
        ELSE [result |-> "Ok",
              storage |-> [rec.storage EXCEPT !.balances = success.balances],
              events |-> rec.events]

\* submit_proof once the block hash was compared: validate and what follows
block_hash_matched(st, origin, typed_chain_id, ep, verdict, debug_assertions) ==
    IF verdict = "Abort" THEN Rejected(st, "Abort")
    ELSE IF verdict # "Ok" THEN Rejected(st, "VerifyProofFail")
    ELSE settle(st, origin, typed_chain_id, ep, debug_assertions)

\* submit_proof once the light client was asked for the header
finalized_header(st, origin, typed_chain_id, ep, finalized, verdict, debug_assertions) ==
    IF finalized = None THEN Rejected(st, "HeaderHashDoesNotExist")
    ELSE IF ep.block_hash # finalized[1] THEN Rejected(st, "BlockHashesDoNotMatch")
    ELSE block_hash_matched(st, origin, typed_chain_id, ep, verdict, debug_assertions)

\* submit_proof once the text is an EventProof
deserialized(st, origin, typed_chain_id, ep, verdict, debug_assertions) ==
    finalized_header(st, origin, typed_chain_id, ep,
                     finalized_execution_blocks(typed_chain_id, ep.block_header.number),
                     verdict, debug_assertions)

\* submit_proof once the bytes are text: serde_json::from_str and what follows
converted(st, origin, typed_chain_id, parsed, verdict, debug_assertions) ==
    IF parsed = None THEN Rejected(st, "DeserializeFail")
    ELSE deserialized(st, origin, typed_chain_id, parsed[1], verdict, debug_assertions)

\* the text decoded before it is looked at as UTF-8
submit_proof_json_first(st, origin, typed_chain_id, event_proof_bytes, debug_assertions) ==
    IF origin = "Root" THEN Rejected(st, "BadOrigin")
    ELSE IF from_str(event_proof_bytes) = None
    THEN Rejected(st, "DeserializeFail")
    ELSE IF from_utf8(event_proof_bytes) = None
    THEN Rejected(st, "ConvertToStringFailed")
    ELSE converted(st, origin, typed_chain_id, from_str(event_proof_bytes),
                   IF event_proof_bytes \in JsonProofs
                   THEN Validated[event_proof_bytes] ELSE "none",
                   debug_assertions)

\* Pallet::submit_proof: the origin, the text, the JSON, the finalized header,
\* the block hash and the proof are checked in this order before the storage
\* is written
submit_proof(st, origin, typed_chain_id, event_proof_bytes, debug_assertions) ==
    IF origin = "Root" THEN Rejected(st, "BadOrigin")
    ELSE IF from_utf8(event_proof_bytes) = None
    THEN Rejected(st, "ConvertToStringFailed")
    ELSE converted(st, origin, typed_chain_id, from_str(event_proof_bytes),
                   IF event_proof_bytes \in JsonProofs
                   THEN Validated[event_proof_bytes] ELSE "none",
                   debug_assertions)

\* retain that drops the first occurrence only
remove_first(addresses, address) ==
    IF \A i \in DOMAIN addresses : addresses[i] # address THEN addresses
    ELSE LET p == CHOOSE i \in DOMAIN addresses :
                     /\ addresses[i] = address
                     /\ \A j \in 1..(i - 1) : addresses[j] # address
         IN  SubSeq(addresses, 1, p - 1) \o SubSeq(addresses, p + 1, Len(addresses))

\* BoundedVec::retain(|x| *x != address)
retain(addresses, address) == SelectSeq(addresses, LAMBDA x : x # address)

\* try_push that refuses one address late: a full list takes one more
update_watching_address_one_more(st, origin, typed_chain_id, address, add) ==
    LET addresses == st.WatchedContracts[typed_chain_id]
        stored(list) == [st EXCEPT !.WatchedContracts[typed_chain_id] = Some(list)]
    IN  IF origin # "Root" THEN Rejected(st, "BadOrigin")
        ELSE IF addresses # None /\ add /\ Len(addresses[1]) > MaxWatched
        THEN Rejected(st, "TooManyAddresses")
        ELSE [result |-> "Ok",
              storage |-> CASE addresses # None /\ add ->
                                 stored(Append(addresses[1], address))
                            [] addresses # None /\ ~add ->
                                 stored(retain(addresses[1], address))
                            [] addresses = None /\ add -> stored(<<address>>)
                            [] OTHER -> st,
              events |-> << [event |-> IF add THEN "AddedContractAddress"
                                       ELSE "RemovedContractAddress",
                             typed_chain_id |-> typed_chain_id,
                             address |-> address] >>]

\* Pallet::update_watching_address: the closure of WatchedContracts::mutate
update_watching_address(st, origin, typed_chain_id, address, add) ==
    LET addresses == st.WatchedContracts[typed_chain_id]
        stored(list) == [st EXCEPT !.WatchedContracts[typed_chain_id] = Some(list)]
        event == [event |-> IF add THEN "AddedContractAddress"
                            ELSE "RemovedContractAddress",
                  typed_chain_id |-> typed_chain_id, address |-> address]
    IN  IF origin # "Root" THEN Rejected(st, "BadOrigin")
        ELSE IF addresses # None /\ add /\ Len(addresses[1]) >= MaxWatched
        THEN Rejected(st, "TooManyAddresses")
        ELSE [result |-> "Ok",
              storage |-> CASE addresses # None /\ add ->
                                 stored(Append(addresses[1], address))
                            [] addresses # None /\ ~add ->
                                 stored(retain(addresses[1], address))
                            [] addresses = None /\ add -> stored(<<address>>)
                            [] OTHER -> st,
              events |-> <<event>>]

\* Pallet::update_proof_fee
update_proof_fee(st, origin, typed_chain_id, proof_deposit, proof_reward) ==
    IF origin # "Root" THEN Rejected(st, "BadOrigin")
    ELSE [result |-> "Ok",
          storage |-> [st EXCEPT !.ProofDeposit[typed_chain_id] = proof_deposit,
                                 !.ProofReward[typed_chain_id] = proof_reward],
          events |-> << [event |-> "UpdateProofFee",
                         typed_chain_id |-> typed_chain_id,
                         proof_deposit |-> proof_deposit,
                         proof_reward |-> proof_reward] >>]

\* the callers: the signed submitter and the privileged origin
Origins == {ALICE, "Root"}

\* the deposit and the reward a chain is given
Fees == {<<1, 2>>}

\* the contract the privileged origin watches and stops watching while
\* proofs are submitted
Watchable == {Contract1}

InitPallet ==
    /\ trie = Empty
    /\ inserted = <<>>
    /\ lastOp = [op |-> "new"]
    /\ event_proof = None
    /\ result = "none"
    /\ input = None
    /\ output = None
    /\ pallet = Genesis(AliceEndowment, TreasuryEndowment)
    /\ db = NoBlocks
    /\ client = None
    /\ processor = None

\* the extrinsic and what it leaves: the result, the storage, the events
Dispatched(call, done) ==
    /\ lastOp' = call
    /\ result' = done.result
    /\ pallet' = done.storage
    /\ output' = done.events
    /\ UNCHANGED <<trie, inserted, event_proof, input, db, client, processor>>

SubmitProof(origin, typed_chain_id, id, debug_assertions) ==
    Dispatched([op |-> "submit_proof", origin |-> origin,
                typed_chain_id |-> typed_chain_id, proof |-> id],
               submit_proof(pallet, origin, typed_chain_id, id, debug_assertions))

UpdateWatchingAddress(origin, typed_chain_id, address, add) ==
    Dispatched([op |-> "update_watching_address", origin |-> origin,
                typed_chain_id |-> typed_chain_id, address |-> address, add |-> add],
               update_watching_address(pallet, origin, typed_chain_id, address, add))

UpdateProofFee(origin, typed_chain_id, fee) ==
    Dispatched([op |-> "update_proof_fee", origin |-> origin,
                typed_chain_id |-> typed_chain_id, fee |-> fee],
               update_proof_fee(pallet, origin, typed_chain_id, fee[1], fee[2]))

NextPallet ==
    \/ \E origin \in Origins, c \in TypedChainIds, id \in EventProofIds,
          debug_assertions \in BOOLEAN :
          SubmitProof(origin, c, id, debug_assertions)
    \/ \E origin \in Origins, c \in TypedChainIds, address \in Watchable,
          add \in BOOLEAN : UpdateWatchingAddress(origin, c, address, add)
    \/ \E origin \in Origins, c \in TypedChainIds, fee \in Fees :
          UpdateProofFee(origin, c, fee)

SpecPallet == InitPallet /\ [][NextPallet]_vars

\* the registry of watched contracts on its own, over both contracts
NextWatching ==
    \E origin \in Origins, c \in TypedChainIds, address \in Contracts,
       add \in BOOLEAN : UpdateWatchingAddress(origin, c, address, add)

SpecWatching == InitPallet /\ [][NextWatching]_vars

\* ----------------------------------------------------------------- relayer
\* rows of the table blocks
MaxBlocks == 3

\* the numbers of the headers and the greatest of them
Heights == {1, 2, 3}
MaxHeight == CHOOSE h \in Heights : \A g \in Heights : g <= h

\* the header parse_block makes of a block of the RPC
RelayHeader(parent_hash, number, logs_bloom) ==
    [parent_hash |-> parent_hash, ommers_hash |-> Run(0, 32),
     beneficiary |-> Run(0, 20), state_root |-> Run(0, 32),
     transactions_root |-> Run(0, 32), receipts_root |-> Run(0, 32),
     withdrawals_root |-> None, logs_bloom |-> logs_bloom,
     difficulty |-> U256_from(0), number |-> number, gas_limit |-> 30000,
     gas_used |-> 21000, timestamp |-> 1700, mix_hash |-> Run(0, 32), nonce |-> 0,
     base_fee_per_gas |-> Some(7), blob_gas_used |-> None,
     excess_blob_gas |-> None, parent_beacon_block_root |-> None,
     extra_data |-> <<>>]

\* a bloom filter without a bit and one with every bit
NoBits == Run(0, 256)
AllBits == Run(255, 256)

\* Bloom::check_address: the bits of the address are all in the filter; no
\* address is in NoBits and every address is in AllBits
check_address(bloom, address) == bloom = AllBits

\* the addresses of the configuration of the relayer
watch_addresses == <<Contract1>>

\* a hash that is the hash of no header
OtherHash == Run(1, 32)

\* The hashes a header of an RPC can have as parent hash while at most depth
\* blocks are stored before it: the hash of no block, a hash of no header, or
\* the hash of such a header.
RECURSIVE ParentsOfDepth(_)
ParentsOfDepth(depth) ==
    IF depth = 0 THEN {Run(0, 32), OtherHash}
    ELSE LET before == ParentsOfDepth(depth - 1)
         IN  before \cup {H256_hash(BlockHeader_encode(RelayHeader(p, n, b))) :
                             p \in before, n \in Heights, b \in {NoBits, AllBits}}

\* H256::hash(&block_header) of the headers of the RPC, by number, bloom
\* filter and parent hash
HeaderHashes ==
    [n \in Heights |-> [b \in {NoBits, AllBits} |->
        [p \in ParentsOfDepth(MaxBlocks - 1) |->
            H256_hash(BlockHeader_encode(RelayHeader(p, n, b)))]]]

\* the number of the newest block of the chain
ChainTip == 4

\* The chain of the execution layer, from its first block 0 to the block
\* ChainTip: the blocks of odd number carry a log of the watched address in
\* their bloom filter.
RECURSIVE ChainBlock(_)
ChainBlock(n) ==
    LET header == RelayHeader(IF n = 0 THEN Run(0, 32) ELSE ChainBlock(n - 1).hash,
                              n, IF n % 2 = 1 THEN AllBits ELSE NoBits)
    IN  [header |-> header, hash |-> H256_hash(BlockHeader_encode(header))]

Chain == [n \in 0..ChainTip |-> ChainBlock(n)]

HeaderHash(header) ==
    IF header = Chain[header.number].header THEN Chain[header.number].hash
    ELSE HeaderHashes[header.number][header.logs_bloom][header.parent_hash]

\* serde_json::to_string and serde_json::from_str of a header
to_string(header) == <<"json", header>>
from_json(text) == text[2]

\* DB::select_latest_fetched_block_hash: the hash of a row of the greatest
\* height; which one, when several rows have it, the query leaves open
latest_fetched_block_hashes(d) ==
    IF d.blocks = <<>> THEN {None}
    ELSE {Some(d.blocks[i].block_hash) : i \in
             {j \in DOMAIN d.blocks :
                 \A k \in DOMAIN d.blocks :
                     d.blocks[k].block_height <= d.blocks[j].block_height}}

\* a block inserted as processed whatever its bloom filter says
insert_block_all_processed(d, block_number, block_hash, block_header, bloom_positive) ==
    IF d.unique /\ \E i \in DOMAIN d.blocks : d.blocks[i].block_height = block_number
    THEN [ok |-> FALSE, db |-> d]
    ELSE [ok |-> TRUE,
          db |-> [d EXCEPT !.blocks =
                     Append(@, [block_height |-> block_number,
                                block_hash |-> block_hash,
                                block_header |-> to_string(block_header),
                                is_processed |-> TRUE])]]

\* DB::insert_block: a row that is processed unless the block is bloom
\* positive; the insert fails for a height the table has, if heights are keys
insert_block(d, block_number, block_hash, block_header, bloom_positive) ==
    IF d.unique /\ \E i \in DOMAIN d.blocks : d.blocks[i].block_height = block_number
    THEN [ok |-> FALSE, db |-> d]
    ELSE [ok |-> TRUE,
          db |-> [d EXCEPT !.blocks =
                     Append(@, [block_height |-> block_number,
                                block_hash |-> block_hash,
                                block_header |-> to_string(block_header),
                                is_processed |-> ~bloom_positive])]]

\* the rows WHERE is_processed = 0 AND block_height < max_block
Pending(d, max_block) ==
    {i \in DOMAIN d.blocks :
        ~d.blocks[i].is_processed /\ d.blocks[i].block_height < max_block}

\* ORDER BY block_height: the rows of S by height, rows of one height in the
\* order of their insertion
RECURSIVE OrderByHeight(_, _)
OrderByHeight(d, S) ==
    IF S = {} THEN <<>>
    ELSE LET i == CHOOSE j \in S :
                    \A k \in S : \/ d.blocks[j].block_height < d.blocks[k].block_height
                                 \/ /\ d.blocks[j].block_height = d.blocks[k].block_height
                                    /\ j <= k
         IN  <<i>> \o OrderByHeight(d, S \ {i})

\* the rows selected whatever their height
select_blocks_to_process_any_height(d, max_block, limit) ==
    LET rows == OrderByHeight(d, Pending(d, MaxHeight + 1))
    IN  [i \in 1..Min(limit, Len(rows)) |->
            [block_height |-> d.blocks[rows[i]].block_height,
             block_hash |-> d.blocks[rows[i]].block_hash,
             block_header |-> from_json(d.blocks[rows[i]].block_header)]]

\* DB::select_blocks_to_process
select_blocks_to_process(d, max_block, limit) ==
    LET rows == OrderByHeight(d, Pending(d, max_block))
    IN  [i \in 1..Min(limit, Len(rows)) |->
            [block_height |-> d.blocks[rows[i]].block_height,
             block_hash |-> d.blocks[rows[i]].block_hash,
             block_header |-> from_json(d.blocks[rows[i]].block_header)]]

\* the update left out
mark_block_processed_no_update(d, block_number) ==
    [d EXCEPT !.marked = @ \cup {block_number},
              !.marked_rows = @ \cup {i \in DOMAIN d.blocks :
                                         d.blocks[i].block_height = block_number}]

\* DB::mark_block_processed: every row of the height is processed
mark_block_processed(d, block_number) ==
    [d EXCEPT !.blocks = [i \in DOMAIN @ |->
                            IF @[i].block_height = block_number
                            THEN [@[i] EXCEPT !.is_processed = TRUE] ELSE @[i]],
              !.marked = @ \cup {block_number},
              !.marked_rows = @ \cup {i \in DOMAIN d.blocks :
                                         d.blocks[i].block_height = block_number}]

\* Client::process_fetched_blocks, the loop from block i of the vector down
\* to its first, after the blocks behind i
RECURSIVE process_from(_, _, _, _)
process_from(d, blocks, i, processed_block_hash) ==
    IF i = 0 THEN [result |-> "Ok", db |-> d]
    ELSE LET block_header == blocks[i][1]
             block_hash == blocks[i][2]
             hash == HeaderHash(block_header)
             should_process ==
                 \E a \in DOMAIN watch_addresses :
                     check_address(block_header.logs_bloom, watch_addresses[a])
             stored == insert_block(d, block_header.number, block_hash,
                                    block_header, should_process)
         IN  IF processed_block_hash # block_header.parent_hash
             THEN [result |-> "Block parent hash mismatch", db |-> d]
             ELSE IF hash # block_hash
             THEN [result |-> "Block hash mismatch", db |-> d]
             ELSE IF ~stored.ok THEN [result |-> "insert failed", db |-> d]
             ELSE process_from(stored.db, blocks, i - 1, hash)

\* Client::process_fetched_blocks with the answer of
\* select_latest_fetched_block_hash
process_fetched_blocks(d, blocks, latest) ==
    IF blocks = <<>> THEN [result |-> "Ok", db |-> d]
    ELSE process_from(d, blocks, Len(blocks),
                      IF latest # None THEN latest[1]
                      ELSE blocks[Len(blocks)][1].parent_hash)

\* What the RPC answers for one block: its number, its bloom filter, and
\* whether its parent hash and the hash it is fetched by are the right ones.
Faults == {"none", "parent", "hash"}
Answers == [number : Heights, logs_bloom : {NoBits, AllBits}, fault : Faults]

\* the answers for the blocks of one finality update, the oldest first, of
\* which at most one is wrong; two blocks are both bloom positive
Batches ==
    {a \in UNION {[1..n -> Answers] : n \in {1, 2}} :
        /\ Cardinality({i \in DOMAIN a : a[i].fault # "none"}) <= 1
        /\ Len(a) = 2 => \A i \in DOMAIN a : a[i].logs_bloom = AllBits}

\* one block that is what the RPC was asked for
OneBlock == {a \in [1..1 -> Answers] : a[1].fault = "none"}

\* the vector collect_blocks_after_finality_update hands over, the newest
\* block first: the oldest follows the block of the hash expected
RECURSIVE Fetched(_, _)
Fetched(answers, expected) ==
    IF answers = <<>> THEN <<>>
    ELSE LET a == Head(answers)
             header == RelayHeader(IF a.fault = "parent" THEN OtherHash ELSE expected,
                                   a.number, a.logs_bloom)
             hash == HeaderHash(header)
         IN  Fetched(Tail(answers), hash)
             \o << <<header, IF a.fault = "hash" THEN OtherHash ELSE hash>> >>

InitRelayer ==
    /\ trie = Empty
    /\ inserted = <<>>
    /\ lastOp = [op |-> "new"]
    /\ event_proof = None
    /\ result = "none"
    /\ input = None
    /\ output = None
    /\ pallet = Genesis(0, 0)
    /\ db \in {[NoBlocks EXCEPT !.unique = u] : u \in BOOLEAN}
    /\ client = None
    /\ processor = None

\* the finalization loop: the blocks of one finality update are processed
ProcessFetchedBlocks(answers) ==
    /\ Len(db.blocks) + Len(answers) <= MaxBlocks
    /\ \E latest \in latest_fetched_block_hashes(db) :
          LET blocks == Fetched(answers, IF latest # None THEN latest[1]
                                         ELSE Run(0, 32))
              done == process_fetched_blocks(db, blocks, latest)
          IN  /\ db' = done.db
              /\ result' = done.result
              /\ lastOp' = [op |-> "process_fetched_blocks",
                            faults |-> [i \in DOMAIN answers |-> answers[i].fault]]
    /\ UNCHANGED <<trie, inserted, event_proof, input, output, pallet,
                 client, processor>>

\* the bloom processor: the blocks of one iteration are selected
SelectBlocksToProcess(max_block, limit) ==
    /\ output' = select_blocks_to_process(db, max_block, limit)
    /\ lastOp' = [op |-> "select_blocks_to_process", max_block |-> max_block,
                  limit |-> limit]
    /\ result' = "Ok"
    /\ UNCHANGED <<trie, inserted, event_proof, input, pallet, db,
                 client, processor>>

\* the bloom processor: a block of the iteration is marked
MarkBlockProcessed(i) ==
    /\ i \in DOMAIN output
    /\ lastOp.op \in {"select_blocks_to_process", "mark_block_processed"}
    /\ db' = mark_block_processed(db, output[i].block_height)
    /\ lastOp' = [op |-> "mark_block_processed",
                  block_number |-> output[i].block_height]
    /\ result' = "Ok"
    /\ UNCHANGED <<trie, inserted, event_proof, input, output, pallet,
                 client, processor>>

\* the finalization loop on its own
NextClient == \E answers \in Batches : ProcessFetchedBlocks(answers)

SpecClient == InitRelayer /\ [][NextClient]_vars

\* both loops of the relayer, with an RPC that answers one block at a time
NextRelayer ==
    \/ \E answers \in OneBlock : ProcessFetchedBlocks(answers)
    \/ \E max_block \in {2, MaxHeight + 1}, limit \in {1, MaxBlocks} :
          SelectBlocksToProcess(max_block, limit)
    \/ \E i \in 1..MaxBlocks : MarkBlockProcessed(i)

SpecRelayer == InitRelayer /\ [][NextRelayer]_vars

\* ------------------------------------------------------- finalization loop
\* repeat_cycle: the failures in a row that are answered by a retry
RETRIES == 10

\* consts::BLOCK_AMOUNT_TO_STORE, the blocks fetched by the first run
BLOCK_AMOUNT_TO_STORE == 2

\* A u64 is written as the integer nearest 0 it is congruent to modulo 2^64:
\* 0, 1, 2 and so on for the small ones, -1 for 2^64 - 1, -2 for 2^64 - 2.
u64_lt(a, b) == IF (a >= 0) = (b >= 0) THEN a < b ELSE a >= 0

\* a - b of two u64, None for a panic: a build with overflow checks panics
\* when a < b, a build without them wraps
u64_sub(a, b, overflow_checks) ==
    IF u64_lt(a, b) /\ overflow_checks THEN None ELSE Some(a - b)

\* Vec::with_capacity(n as usize) of pairs of a header and a hash, None for a
\* panic: more than isize::MAX bytes is a capacity overflow
with_capacity(n) == IF n < 0 THEN None ELSE Some(<<>>)

\* DB::select_latest_fetched_block_height
select_latest_fetched_block_height(d) ==
    IF d.blocks = <<>> THEN None
    ELSE LET heights == {d.blocks[i].block_height : i \in DOMAIN d.blocks}
         IN  Some(CHOOSE h \in heights : \A g \in heights : g <= h)

\* Provider::get_block of the block RPC: the block of the chain with the hash
get_block(hash) ==
    LET numbers == {n \in DOMAIN Chain : Chain[n].hash = hash}
    IN  IF numbers = {} THEN None ELSE Some(Chain[CHOOSE n \in numbers : TRUE])

\* the ExecutionBlock the light client gives for BlockTag::Finalized
FinalizedBlock(n) ==
    [number |-> n, hash |-> Chain[n].hash,
     parent_hash |-> Chain[n].header.parent_hash]

\* the counter kept as it is whatever the failures before
repeat_cycle_late(repeat_counter) ==
    IF repeat_counter <= RETRIES THEN Some(repeat_counter + 1) ELSE None

\* repeat_cycle: the counter of the next try, or the error
repeat_cycle(repeat_counter) ==
    IF repeat_counter < RETRIES THEN Some(repeat_counter + 1) ELSE None

\* The client task in finalization_loop at duration.tick() with its
\* latest_fetched_block; the locals of collect_blocks_after_finality_update
\* are not live there.
Ticking(latest_fetched_block, overflow_checks) ==
    [pc |-> "tick", overflow_checks |-> overflow_checks,
     latest_fetched_block |-> latest_fetched_block, finalized_block |-> None,
     latest |-> 0, current_block |-> 0, prev_block_hash |-> Run(0, 32),
     blocks_to_process |-> <<>>, repeat |-> 0]

\* the task ended by a panic
Panicked(c) ==
    [Ticking(c.latest_fetched_block, c.overflow_checks) EXCEPT !.pc = "panicked"]

\* collect_blocks_after_finality_update up to its first fetch (lines 121-132):
\* the locals, or None for a panic
collect_start(c, finalized_block) ==
    LET checks == c.overflow_checks
        latest == IF c.latest_fetched_block # None THEN c.latest_fetched_block
                  ELSE u64_sub(finalized_block.number, BLOCK_AMOUNT_TO_STORE, checks)
        capacity == IF latest = None THEN None
                    ELSE u64_sub(finalized_block.number, latest[1], checks)
        blocks_to_process == IF capacity = None THEN None
                             ELSE with_capacity(capacity[1])
        current_block == u64_sub(finalized_block.number, 1, checks)
    IN  IF blocks_to_process = None \/ current_block = None THEN None
        ELSE Some([c EXCEPT !.finalized_block = Some(finalized_block),
                            !.latest = latest[1],
                            !.current_block = current_block[1],
                            !.prev_block_hash = finalized_block.parent_hash,
                            !.blocks_to_process = blocks_to_process[1],
                            !.repeat = 0])

\* the next block asked for again: prev_block_hash stays
fetched_same_hash(c, execution_block) ==
    LET current_block == u64_sub(c.current_block, 1, c.overflow_checks)
    IN  IF current_block = None THEN None
        ELSE Some([c EXCEPT !.blocks_to_process =
                                Append(@, <<execution_block.header,
                                            c.prev_block_hash>>),
                            !.current_block = current_block[1],
                            !.repeat = 0])

\* a block fetched and parsed in the loop (lines 153-161): the locals, or
\* None for a panic
fetched(c, execution_block) ==
    LET current_block == u64_sub(c.current_block, 1, c.overflow_checks)
    IN  IF current_block = None THEN None
        ELSE Some([c EXCEPT !.blocks_to_process =
                                Append(@, <<execution_block.header,
                                            c.prev_block_hash>>),
                            !.current_block = current_block[1],
                            !.prev_block_hash = execution_block.header.parent_hash,
                            !.repeat = 0])

\* what a call of the RPC can come to: a block that parses, an error or no
\* block, a block that parse_block refuses
Outcomes == {"ok", "fail", "unparsable"}

\* finalization_loop after collect_blocks_after_finality_update returned
\* (lines 97-107), the table being d
Returns(c, d, returned, call) ==
    /\ client' = Ticking(select_latest_fetched_block_height(d), c.overflow_checks)
    /\ db' = d
    /\ result' = returned
    /\ lastOp' = call

\* the task panics
Panics(c, call) ==
    /\ client' = Panicked(c)
    /\ result' = "panic"
    /\ lastOp' = call
    /\ UNCHANGED db

\* The while loop at its condition (line 143) with the locals c: it goes on
\* with the next fetch, or the blocks are processed and the call returns,
\* handing over the blocks of the locals.
While(c, op, failures) ==
    IF c.current_block # c.latest
    THEN /\ client' = [c EXCEPT !.pc = "fetch"]
         /\ lastOp' = [op |-> op, outcome |-> "ok", failures |-> failures,
                       handed |-> None]
         /\ UNCHANGED <<db, result>>
    ELSE \E latest \in latest_fetched_block_hashes(db) :
            LET done == process_fetched_blocks(db, c.blocks_to_process, latest)
            IN  Returns(c, done.db, done.result,
                        [op |-> op, outcome |-> "ok", failures |-> failures,
                         handed |-> Some(c)])

\* One turn of finalization_loop from its tick to the first fetch of
\* collect_blocks_after_finality_update: answer is the finalized block of
\* the light client, if it has one, first what the first fetch comes to.
Tick(answer, first) ==
    /\ client # None
    /\ client.pc = "tick"
    /\ LET call == [op |-> "tick", outcome |-> first, failures |-> 0,
                    handed |-> None]
           skipped == [op |-> "tick", outcome |-> "none", failures |-> 0,
                       handed |-> None]
       IN  IF answer = None \/ answer = client.latest_fetched_block
           THEN /\ lastOp' = skipped
                /\ UNCHANGED <<client, db, result>>
           ELSE LET c == collect_start(client, FinalizedBlock(answer[1]))
                    block == get_block(FinalizedBlock(answer[1]).hash)
                IN  IF c = None THEN Panics(client, call)
                    ELSE IF first # "ok" \/ block = None
                    THEN Returns(client, db, IF first = "unparsable"
                                             THEN "Failed to parse block"
                                             ELSE "Block not found", call)
                    ELSE While([c[1] EXCEPT !.blocks_to_process =
                                   Append(@, <<block[1].header,
                                               FinalizedBlock(answer[1]).hash>>)],
                               "tick", 0)
    /\ UNCHANGED <<trie, inserted, event_proof, input, output, pallet, processor>>

\* One turn of the while loop of collect_blocks_after_finality_update
\* (lines 143-166): outcome is what the fetch by prev_block_hash comes to.
Fetch(outcome) ==
    /\ client # None
    /\ client.pc = "fetch"
    /\ LET block == get_block(client.prev_block_hash)
           failed == outcome # "ok" \/ block = None
           failures == IF failed /\ lastOp.op = "fetch" THEN lastOp.failures + 1
                       ELSE IF failed THEN 1 ELSE 0
           call == [op |-> "fetch",
                    outcome |-> IF failed /\ outcome = "ok" THEN "fail" ELSE outcome,
                    failures |-> failures, handed |-> None]
       IN  IF failed
           THEN LET repeat == repeat_cycle(client.repeat)
                IN  IF repeat = None
                    THEN Returns(client, db, "Multiple retries happened", call)
                    ELSE /\ client' = [client EXCEPT !.repeat = repeat[1]]
                         /\ lastOp' = call
                         /\ UNCHANGED <<db, result>>
           ELSE LET c == fetched(client, block[1])
                IN  IF c = None THEN Panics(client, call)
                    ELSE While(c[1], "fetch", 0)
    /\ UNCHANGED <<trie, inserted, event_proof, input, output, pallet, processor>>

\* the relayer starts: the table is empty, the client task is at its first
\* tick, in a build with overflow checks or without
InitCollect ==
    /\ trie = Empty
    /\ inserted = <<>>
    /\ lastOp = [op |-> "new"]
    /\ event_proof = None
    /\ result = "none"
    /\ input = None
    /\ output = None
    /\ pallet = Genesis(0, 0)
    /\ db \in {[NoBlocks EXCEPT !.unique = u] : u \in BOOLEAN}
    /\ client \in {Ticking(None, checks) : checks \in BOOLEAN}
    /\ processor = None

\* the interval of finalization_loop ticks, with the answer of the light
\* client and of the first fetch
Ticks ==
    \E answer \in {None} \cup {Some(n) : n \in DOMAIN Chain}, first \in Outcomes :
       Tick(answer, first)

NextCollect ==
    \/ Ticks
    \/ \E outcome \in Outcomes : Fetch(outcome)

SpecCollect == InitCollect /\ [][NextCollect]_vars

\* the interval keeps ticking while the task lives
FairCollect == SpecCollect /\ WF_vars(Ticks)

\* -------------------------------------------------------- bloom processor
\* BloomProcessor::limit_processing_blocks_per_iteration, of the configuration
limit_processing_blocks_per_iteration == 2

\* What eth_getTransactionReceipt answers for the transactions of a block
\* with logs: the receipts of the block, whose bloom filters hold the
\* addresses of their logs, in the order of the transactions or in the other
\* order
ReceiptAnswers == {"in order", "out of order"}
RpcReceipts(answer) ==
    LET receipts == [i \in 1..2 |-> [BlockReceipt(i - 1) EXCEPT !.bloom = AllBits]]
    IN  IF answer = "in order" THEN receipts ELSE <<receipts[2], receipts[1]>>

\* build_receipt_proof: the trie of the receipts under rlp(index)
RECURSIVE receipts_trie(_, _)
receipts_trie(receipts, n) ==
    IF n = 0 THEN Empty
    ELSE insert(receipts_trie(receipts, n - 1), index_key(n - 1),
                TransactionReceipt_encode(receipts[n]))

\* The blocks of the execution layer with their receipts, from block 0 to
\* block ChainTip: the blocks of odd number hold the two receipts with logs,
\* and their bloom filter holds every address.
ExecutionHeader(parent_hash, n, receipts) ==
    [RelayHeader(parent_hash, n, IF n % 2 = 1 THEN AllBits ELSE NoBits)
        EXCEPT !.receipts_root = root_hash(receipts_trie(receipts, Len(receipts)))]

Hashed(header) == [header |-> header, hash |-> H256_hash(BlockHeader_encode(header))]

RECURSIVE ExecutionBlock(_)
ExecutionBlock(n) ==
    Hashed(ExecutionHeader(IF n = 0 THEN Run(0, 32) ELSE ExecutionBlock(n - 1).hash, n,
                           IF n % 2 = 1 THEN RpcReceipts("in order") ELSE <<>>))

ExecutionChain == [n \in 0..ChainTip |-> ExecutionBlock(n)]

\* the EventProof build_receipt_proof makes of the proof of the trie
EventProofOf(block_hash, block, receipt, merkle) ==
    [panic |-> merkle.panic,
     proof |-> [block_header |-> block,
                block_hash |-> block_hash,
                transaction_receipt |-> receipt,
                transaction_receipt_hash |-> H256_hash(TransactionReceipt_encode(receipt)),
                merkle_proof_of_receipt |-> [key |-> merkle.key, proof |-> merkle.proof]]]

\* the result of build_receipt_proof, whose merkle_proof and validate panic
\* on a trie or proof they cannot walk
Validation(made, validated) ==
    [panic |-> made.panic \/ validated = "Abort",
     proof |-> IF ~made.panic /\ validated = "Ok" THEN Some(made.proof) ELSE None]

ValidationOf(made) == Validation(made, IF made.panic THEN "Abort" ELSE validate(made.proof))

\* build_receipt_proof: the proof of the receipt at receipt_index, if it is
\* valid
build_receipt_proof(block_hash, block, receipts, receipt_index) ==
    ValidationOf(EventProofOf(block_hash, block, receipts[receipt_index + 1],
                              merkle_proof(receipts_trie(receipts, Len(receipts)),
                                           index_key(receipt_index))))

\* build_receipt_proof of a block of the chain
BuiltOf(block, receipts, receipt_index) ==
    build_receipt_proof(block.hash, block.header, receipts, receipt_index)

\* build_receipt_proof of the stored blocks with logs, by height, answer of
\* the RPC and index of the receipt
BuiltProofs ==
    [n \in {m \in 0..ChainTip : m % 2 = 1} |-> [answer \in ReceiptAnswers |->
        [i \in 0..1 |-> BuiltOf(ExecutionChain[n], RpcReceipts(answer), i)]]]

\* the closure of run: a log of a watched address, in the bloom filter of the
\* receipt and among its logs
event_exist(receipt, watched_address) ==
    \E a \in DOMAIN watched_address :
        /\ check_address(receipt.bloom, watched_address[a])
        /\ \E l \in DOMAIN receipt.receipt.logs :
              receipt.receipt.logs[l].address = watched_address[a]

\* Result<bool>::unwrap_or_default of the answer of is_item_proved
unwrap_or_default(answer) == IF answer = None THEN FALSE ELSE answer[1]

\* the answers of SubstrateClient::is_item_proved
ProvedAnswers == {None, Some(TRUE), Some(FALSE)}

\* The receipts is_item_proved is asked for: those of the selected blocks
\* whose receipts were fetched that hold a log of a watched address, by
\* place of the block and index of the receipt.
Asked(p) ==
    {q \in (DOMAIN p.blocks_to_process) \X {0, 1} :
        /\ p.receipts[q[1]] # "error"
        /\ event_exist(RpcReceipts(p.receipts[q[1]])[q[2] + 1], p.watched_addresses[1])}

\* run, one turn of the loop over the receipts: the proof of the receipt of
\* index i is pushed if the receipt holds a log of a watched address, is not
\* proved on the chain and its proof is valid
Pushed(before, i, asked, answer, built) ==
    IF asked /\ ~unwrap_or_default(answer) /\ built.proof # None
    THEN Append(before, [receipt_index |-> i, event_proof |-> built.proof[1]])
    ELSE before

\* run, the loop over the receipts of the block at place b: the proofs
\* pushed for the receipts before receipt n
RECURSIVE receipts_loop(_, _, _, _)
receipts_loop(p, b, proved, n) ==
    IF n = 0 THEN <<>>
    ELSE Pushed(receipts_loop(p, b, proved, n - 1), n - 1, <<b, n - 1>> \in Asked(p),
                IF <<b, n - 1>> \in Asked(p) THEN proved[<<b, n - 1>>] ELSE None,
                BuiltProofs[p.blocks_to_process[b].block_height][p.receipts[b]][n - 1])

\* a block whose receipts were not fetched counts as one without proofs
Created_unfetched_as_empty(p, proved) ==
    [b \in DOMAIN p.blocks_to_process |->
        IF p.receipts[b] = "error" THEN Some(<<>>)
        ELSE Some(receipts_loop(p, b, proved, Len(RpcReceipts(p.receipts[b]))))]

\* the proofs created for each selected block, or None for a block whose
\* receipts were not fetched
Created(p, proved) ==
    [b \in DOMAIN p.blocks_to_process |->
        IF p.receipts[b] = "error" THEN None
        ELSE Some(receipts_loop(p, b, proved, Len(RpcReceipts(p.receipts[b]))))]

\* the proofs of the blocks before place b, in the order they are pushed
RECURSIVE blocks_loop(_, _)
blocks_loop(created, b) ==
    IF b = 0 THEN <<>>
    ELSE blocks_loop(created, b - 1) \o (IF created[b] = None THEN <<>> ELSE created[b][1])

\* the blocks whose receipts were fetched and that got no proof
false_positives(created) ==
    {b \in DOMAIN created : created[b] # None /\ Len(created[b][1]) = 0}

\* the answers of send_event_proof
SendResults == {"Ok", "Err"}

\* every proof is signed with the nonce of the account
send_event_proofs_one_nonce(event_proofs, nonce, sent) ==
    IF nonce = None THEN [submitted |-> <<>>, results |-> <<>>]
    ELSE [submitted |-> [i \in DOMAIN event_proofs |->
                            [event_proof |-> event_proofs[i], nonce |-> nonce[1]]],
          results |-> [i \in DOMAIN event_proofs |->
                          <<event_proofs[i].block_header.number, sent[i]>>]]

\* SubstrateClient::send_event_proofs with the answer of account_nonce and
\* the results of the submissions: what is submitted, and what is returned
send_event_proofs(event_proofs, nonce, sent) ==
    LET block_heights ==
            [i \in DOMAIN event_proofs |-> event_proofs[i].block_header.number]
    IN  IF nonce = None THEN [submitted |-> <<>>, results |-> <<>>]
        ELSE [submitted |-> [i \in DOMAIN event_proofs |->
                                [event_proof |-> event_proofs[i],
                                 nonce |-> nonce[1] + (i - 1)]],
              results |-> [i \in DOMAIN event_proofs |-> <<block_heights[i], sent[i]>>]]

\* mark_block_processed of the heights of a sequence, one after the other
RECURSIVE mark_blocks_processed(_, _)
mark_blocks_processed(d, heights) ==
    IF Len(heights) = 0 THEN d
    ELSE mark_blocks_processed(mark_block_processed(d, Head(heights)), Tail(heights))

\* the heights of the places of S, in the order of the places
RECURSIVE HeightsOf(_, _)
HeightsOf(blocks, S) ==
    IF S = {} THEN <<>>
    ELSE LET b == CHOOSE c \in S : \A e \in S : c <= e
         IN  <<blocks[b].block_height>> \o HeightsOf(blocks, S \ {b})

\* the nonce of the account of the relayer
AccountNonce == 7

\* the bloom processor at the head of its loop
Looping(sleep, watched_addresses) ==
    [pc |-> "loop", sleep |-> sleep, watched_addresses |-> watched_addresses,
     blocks_to_process |-> <<>>, receipts |-> <<>>]

\* the answers of fetch_receipts
FetchAnswers == {"error"} \cup ReceiptAnswers

\* run, from the head of the loop to the receipts fetched: the answer of
\* last_known_block_block_number is that of the chain or an error, watched is
\* the answer of watched_addresses, and fetch_receipts answers for each of
\* the selected blocks
Select(known, watched) ==
    /\ processor # None
    /\ processor.pc = "loop"
    /\ LET latest_finalized_block_on_chain ==
               IF known THEN input.finalized_execution_header - 1 ELSE 0
           blocks_to_process ==
               select_blocks_to_process(db, latest_finalized_block_on_chain,
                                        limit_processing_blocks_per_iteration)
           sleep == Len(blocks_to_process) < limit_processing_blocks_per_iteration
           watched_addresses ==
               IF watched # None THEN watched ELSE processor.watched_addresses
       IN  /\ IF Len(blocks_to_process) = 0
              THEN processor' = Looping(TRUE, processor.watched_addresses)
              ELSE IF watched_addresses = None
              THEN processor' = Looping(sleep, None)
              ELSE \E receipts \in [DOMAIN blocks_to_process -> FetchAnswers] :
                      processor' = [pc |-> "selected", sleep |-> sleep,
                                    watched_addresses |-> watched_addresses,
                                    blocks_to_process |-> blocks_to_process,
                                    receipts |-> receipts]
           /\ lastOp' = [op |-> "select",
                         max_block |-> latest_finalized_block_on_chain,
                         selected |-> [b \in DOMAIN blocks_to_process |->
                                          blocks_to_process[b].block_height]]
    /\ UNCHANGED <<trie, inserted, event_proof, result, input, output, pallet, db,
                   client>>

\* the blocks of the accepted proofs are left as they are
Marked_false_positives_only(blocks, created, merkle_proofs, proved, nonce, sent, sending) ==
    /\ db' = mark_blocks_processed(db, HeightsOf(blocks, false_positives(created)))
    /\ lastOp' =
           [op |-> "process",
            blocks |-> [b \in DOMAIN blocks |-> blocks[b].block_height],
            receipts |-> processor.receipts,
            watched_addresses |-> processor.watched_addresses[1],
            proved |-> [q \in DOMAIN proved |-> unwrap_or_default(proved[q])],
            created |-> [i \in DOMAIN merkle_proofs |->
                [block_height |-> merkle_proofs[i].event_proof.block_header.number,
                 receipt_index |-> merkle_proofs[i].receipt_index]],
            nonce |-> nonce,
            sent |-> sent,
            submitted |-> [i \in DOMAIN sending.submitted |->
                [block_height |-> sending.submitted[i].event_proof.block_header.number,
                 receipt |-> sending.submitted[i].event_proof.transaction_receipt_hash,
                 nonce |-> sending.submitted[i].nonce]],
            returned |-> sending.results]

\* run, from the proofs created to the end of the iteration: the blocks
\* without a proof are marked, the proofs are sent and the blocks of the
\* accepted ones are marked
Marked(blocks, created, merkle_proofs, proved, nonce, sent, sending) ==
    /\ db' = mark_blocks_processed(
                 mark_blocks_processed(db, HeightsOf(blocks, false_positives(created))),
                 LET accepted == SelectSeq(sending.results, LAMBDA r : r[2] = "Ok")
                 IN  [i \in DOMAIN accepted |-> accepted[i][1]])
    /\ lastOp' =
           [op |-> "process",
            blocks |-> [b \in DOMAIN blocks |-> blocks[b].block_height],
            receipts |-> processor.receipts,
            watched_addresses |-> processor.watched_addresses[1],
            proved |-> [q \in DOMAIN proved |-> unwrap_or_default(proved[q])],
            created |-> [i \in DOMAIN merkle_proofs |->
                [block_height |-> merkle_proofs[i].event_proof.block_header.number,
                 receipt_index |-> merkle_proofs[i].receipt_index]],
            nonce |-> nonce,
            sent |-> sent,
            submitted |-> [i \in DOMAIN sending.submitted |->
                [block_height |-> sending.submitted[i].event_proof.block_header.number,
                 receipt |-> sending.submitted[i].event_proof.transaction_receipt_hash,
                 nonce |-> sending.submitted[i].nonce]],
            returned |-> sending.results]

\* the proofs are sent: without the nonce none of them is submitted
Sending(blocks, created, merkle_proofs, proved, nonce) ==
    \E sent \in [DOMAIN merkle_proofs -> IF nonce = None THEN {"Err"} ELSE SendResults] :
       Marked(blocks, created, merkle_proofs, proved, nonce, sent,
              send_event_proofs([i \in DOMAIN merkle_proofs |-> merkle_proofs[i].event_proof],
                                nonce, sent))

Proving(blocks, created, proved, nonce) ==
    Sending(blocks, created, blocks_loop(created, Len(blocks)), proved, nonce)

\* run, from the loop over the fetched receipts to the end of the iteration,
\* with the answers of is_item_proved and of account_nonce and the results
\* of the submissions
Process ==
    /\ processor # None
    /\ processor.pc = "selected"
    /\ \E proved \in [Asked(processor) -> ProvedAnswers],
          nonce \in {None, Some(AccountNonce)} :
          Proving(processor.blocks_to_process, Created(processor, proved), proved, nonce)
    /\ processor' = Looping(processor.sleep, processor.watched_addresses)
    /\ UNCHANGED <<trie, inserted, event_proof, result, input, output, pallet, client>>

\* Client::process_fetched_blocks, the block stored if its bloom filter
\* holds a configured address
Stored(block) ==
    LET stored == insert_block(db, block.header.number, block.hash, block.header,
                               \E a \in DOMAIN watch_addresses :
                                   check_address(block.header.logs_bloom,
                                                 watch_addresses[a]))
    IN  /\ stored.ok
        /\ db' = stored.db

\* Client::process_fetched_blocks, one turn of its loop for the block that
\* follows the stored ones: the checks of the parent hash and of the hash
\* pass for a block of the chain
Stores(n) ==
    /\ processor # None
    /\ \/ select_latest_fetched_block_height(db) = None
       \/ select_latest_fetched_block_height(db) = Some(n - 1)
    /\ Stored(ExecutionChain[n])
    /\ lastOp' = [op |-> "store", block |-> n]
    /\ UNCHANGED <<trie, inserted, event_proof, result, input, output, pallet, client,
                   processor>>

\* the light client of the destination chain finalizes the next block
Finalizes ==
    /\ processor # None
    /\ input.finalized_execution_header <= ChainTip
    /\ input' = [input EXCEPT !.finalized_execution_header = @ + 1]
    /\ lastOp' = [op |-> "finalize"]
    /\ UNCHANGED <<trie, inserted, event_proof, result, output, pallet, db, client,
                   processor>>

InitBloom ==
    /\ trie = Empty
    /\ inserted = <<>>
    /\ lastOp = [op |-> "new"]
    /\ event_proof = None
    /\ result = "none"
    /\ input = [finalized_execution_header |-> 1]
    /\ output = None
    /\ pallet = Genesis(0, 0)
    /\ db = NoBlocks
    /\ client = None
    /\ processor = Looping(TRUE, None)

\* the answers of SubstrateClient::watched_addresses
WatchedAnswers == {None, Some(<<Contract1>>), Some(<<Contract2>>)}

\* an iteration of run begins, whatever the chains answer
Selects == \E known \in BOOLEAN, watched \in WatchedAnswers : Select(known, watched)

NextBloom ==
    \/ \E n \in 0..ChainTip : Stores(n)
    \/ Finalizes
    \/ Selects
    \/ Process

SpecBloom == InitBloom /\ [][NextBloom]_vars

\* The tasks of main are spawned on the runtime, which polls each of them
\* again and again: the bloom processor comes back to the head of its loop.
FairBloom == SpecBloom /\ WF_vars(Selects)

\* ---------------------------------------------------------- reference trie
\* The root of the Patricia-Merkle trie of a map from keys to values, by
\* recursion over the set of keys that share their first depth nibbles.
ref_rlp_list(items) ==
    LET body == Concat(items) IN Header_encode(TRUE, Width(body)) \o body

ref_child(rlp) == IF Width(rlp) < 32 THEN rlp ELSE bytes_encode(keccak(rlp))

ref_common(keys, depth) ==
    LET k == CHOOSE x \in keys : TRUE
        ok == {j \in depth..Len(k) :
                 \A x \in keys : Len(x) >= j /\ SubSeq(x, 1, j) = SubSeq(k, 1, j)}
    IN  CHOOSE j \in ok : \A o \in ok : o <= j

RECURSIVE ref_node(_, _, _)
ref_node(m, keys, depth) ==
    IF keys = {} THEN Bytes(<<EMPTY_STRING_CODE>>)
    ELSE IF Cardinality(keys) = 1
    THEN LET k == CHOOSE x \in keys : TRUE
             nib == Nibbles_new(k)
         IN  ref_rlp_list(<<bytes_encode(encode_path_leaf(SubSeq(nib, depth + 1, Len(nib)), TRUE)),
                            bytes_encode(m[k])>>)
    ELSE LET nibs == {Nibbles_new(k) : k \in keys}
             j == ref_common(nibs, depth)
             any == CHOOSE x \in nibs : TRUE
         IN  IF j > depth
             THEN ref_rlp_list(<<bytes_encode(encode_path_leaf(SubSeq(any, depth + 1, j), FALSE)),
                                 ref_child(ref_node(m, keys, j))>>)
             ELSE LET here == {k \in keys : Len(Nibbles_new(k)) = depth}
                      below(n) == {k \in keys : Len(Nibbles_new(k)) > depth
                                                /\ Nibbles_new(k)[depth + 1] = n}
                  IN  ref_rlp_list([i \in 1..17 |->
                         IF i = 17
                         THEN IF here = {} THEN Bytes(<<EMPTY_STRING_CODE>>)
                              ELSE bytes_encode(m[CHOOSE k \in here : TRUE])
                         ELSE IF below(i - 1) = {} THEN Bytes(<<EMPTY_STRING_CODE>>)
                              ELSE ref_child(ref_node(m, below(i - 1), depth + 1))])

ref_root(m) == keccak(ref_node(m, DOMAIN m, 0))

\* ------------------------------------------------------------------ claims

\* the key is stored in the value slot of a branch
RECURSIVE InBranchSlot(_, _)
InBranchSlot(node, key) ==
    CASE node.t = "Extension" ->
           IsPrefix(node.prefix, key) /\ InBranchSlot(node.node, offset(key, Len(node.prefix)))
      [] node.t = "Branch" ->
           IF at(key, 0) = 16 THEN node.value # None
           ELSE InBranchSlot(node.children[at(key, 0) + 1], offset(key, 1))
      [] OTHER -> FALSE

RoundTrip(k) ==
    LET p == merkle_proof(trie, k)
    IN  /\ ~p.panic
        /\ merkle_root(p, inserted[k]) = [panic |-> FALSE, root |-> root_hash(trie)]

\* C1: for every inserted key, also one in a branch value slot, the root
\* recomputed from the proof of the key and its value is the root of the trie.
C1_ProofRoundTrip == \A k \in DOMAIN inserted : RoundTrip(k)

\* the round trip for the keys that end in a leaf
ProofRoundTripOfLeafKeys ==
    \A k \in DOMAIN inserted : ~InBranchSlot(trie, from_raw(k, TRUE)) => RoundTrip(k)


\* the trie built from a map by inserting its keys in ascending order
RECURSIVE build_sorted(_, _)
build_sorted(m, keys) ==
    IF keys = {} THEN Empty
    ELSE LET last == CHOOSE k \in keys : \A o \in keys \ {k} : KeyLess(o, k)
         IN  insert(build_sorted(m, keys \ {last}), last, m[last])

\* C2: whatever the order of the inserts, the trie has the node structure of
\* the trie built from the same pairs in ascending key order; root_hash is a
\* function of the node structure, so the root is the same too.
C2_RootDeterminism == trie = build_sorted(inserted, DOMAIN inserted)

C2_Witness ==
    /\ Cardinality(DOMAIN inserted) >= 3
    /\ lastOp.op = "insert" /\ ~lastOp.replaced /\ ~lastOp.greatest
    /\ trie.t = "Extension"
    /\ trie.node.value # None

\* C3: validate() checks the block hash, then the receipt hash, then the
\* receipts root, and the first check that fails decides the result; it
\* returns Ok only when all three hold.
C3_ValidateOrder ==
    lastOp.op = "validate" =>
        /\ lastOp.block_hash = "other" => result = "IncorrectBodyHash"
        /\ lastOp.block_hash = "block" /\ lastOp.receipt_hash = "other"
              => result = "IncorrectReceiptHash"
        /\ (lastOp.block_hash = "block" /\ lastOp.receipt_hash = "block"
            /\ lastOp.proof # "overlong")
              => result = IF /\ lastOp.header = "block"
                             /\ \/ lastOp.proof = "block"
                                \/ Cardinality(DOMAIN inserted) = 1
                          THEN "Ok" ELSE "IncorrectReceiptRoot"

\* all three checks fail and the first decides
C3_Witness ==
    /\ lastOp.op = "validate"
    /\ lastOp.block_hash = "other" /\ lastOp.receipt_hash = "other"
    /\ lastOp.header = "other" /\ lastOp.proof = "empty"
    /\ Cardinality(DOMAIN inserted) >= 2
    /\ result = "IncorrectBodyHash"

\* C4: validate() ends with Ok or with one of the three errors for every
\* EventProof, also one whose proof strips more nibbles than the key has.
C4_ValidateTotal ==
    lastOp.op = "validate" =>
        result \in {"Ok", "IncorrectBodyHash", "IncorrectReceiptHash", "IncorrectReceiptRoot"}

\* C6: for receipts under the keys rlp(index), the root recomputed from the
\* proof of every inserted index is the root of the reference trie over the
\* same pairs.
C6_ProofRootIsReferenceRoot ==
    event_proof = None =>
        \A k \in DOMAIN inserted :
            LET p == merkle_proof(trie, k)
            IN  /\ ~p.panic
                /\ merkle_root(p, inserted[k]) = [panic |-> FALSE, root |-> ref_root(inserted)]

C6_Witness ==
    /\ event_proof = None
    /\ Cardinality(DOMAIN inserted) >= 3
    /\ \E k \in DOMAIN inserted :
          LET p == merkle_proof(trie, k).proof
          IN  /\ Len(k) = 2
              /\ \E i \in DOMAIN p : p[i].t = "ExtensionNode"
              /\ \E i \in DOMAIN p : p[i].t = "BranchNode"

\* C7: after any sequence of inserts iter() yields exactly one pair per
\* distinct inserted key, with the value of the last insert of that key.
C7_IterYieldsInserted ==
    LET out == iter_all(trie)
    IN  /\ Len(out) = Cardinality(DOMAIN inserted)
        /\ \A i \in 1..Len(out) :
              out[i][1] \in DOMAIN inserted /\ inserted[out[i][1]] = out[i][2]
        /\ \A k \in DOMAIN inserted : \E i \in 1..Len(out) : out[i][1] = k

C7_Witness ==
    /\ lastOp.op = "insert" /\ lastOp.replaced
    /\ Cardinality(DOMAIN inserted) >= 3
    /\ \E j, k \in DOMAIN inserted : inserted[j] # inserted[k]
    /\ Len(iter_all(trie)) = Cardinality(DOMAIN inserted)

\* C8: iter() yields the pairs in ascending key order, a key stored in a
\* branch value slot before the keys below that branch.
C8_IterSorted ==
    LET out == iter_all(trie)
    IN  \A i \in 1..(Len(out) - 1) : KeyLess(out[i][1], out[i + 1][1])

C8_Witness ==
    LET out == iter_all(trie)
    IN  /\ Len(out) >= 3
        /\ \E n \in Nodes(trie) :
              /\ n.t = "Branch" /\ n.value # None
              /\ Cardinality({i \in 1..16 : n.children[i] # Empty}) >= 2
        /\ IsPrefix(out[1][1], out[2][1])

\* C9: a chain of keys, each a proper prefix of the next, leaves one entry
\* per key; no value of a shorter or longer key is overwritten or dropped.
C9_ChainKeepsAll ==
    LET out == iter_all(trie)
    IN  /\ trie # Panic
        /\ Len(out) = Cardinality(DOMAIN inserted)
        /\ \A k \in DOMAIN inserted : \E i \in 1..Len(out) : out[i] = <<k, inserted[k]>>

C9_Witness ==
    /\ Cardinality(DOMAIN inserted) >= 5
    /\ \A a, b \in DOMAIN inserted : IsPrefix(a, b) \/ IsPrefix(b, a)
    /\ Len(iter_all(trie)) = Cardinality(DOMAIN inserted)

\* C10: the child of every Extension is a Branch (never Empty, never an
\* Extension).
C10_ExtensionChildIsBranch ==
    \A n \in Nodes(trie) : n.t = "Extension" => n.node.t = "Branch"

\* an extension split in the middle of its prefix: the kept part is the
\* root, the rest hangs below the new branch
C10_Witness ==
    /\ trie.t = "Extension" /\ Len(trie.prefix) = 1
    /\ trie.node.t = "Branch"
    /\ \E i \in 1..16 : trie.node.children[i].t = "Extension"

RECURSIVE Shape(_)
Shape(n) ==
    CASE n.t = "Leaf" -> [t |-> "Leaf", key |-> n.key]
      [] n.t = "Extension" -> [t |-> "Extension", prefix |-> n.prefix, node |-> Shape(n.node)]
      [] n.t = "Branch" -> [t |-> "Branch", value |-> n.value # None,
                            children |-> [i \in 1..16 |-> Shape(n.children[i])]]
      [] OTHER -> n

\* The pairs <<nibble path with terminator, value>> stored below n.
RECURSIVE Entries(_, _)
Entries(n, path) ==
    CASE n.t = "Leaf" -> {<<path \o n.key, n.value>>}
      [] n.t = "Extension" -> Entries(n.node, path \o n.prefix)
      [] n.t = "Branch" ->
           (IF n.value = None THEN {} ELSE {<<Append(path, 16), n.value[1]>>})
           \cup UNION {Entries(n.children[i], Append(path, i - 1)) : i \in 1..16}
      [] OTHER -> {}

\* C12: an insert of a key that is already present leaves the node structure
\* and the number of entries as they were and changes no value but that of
\* the inserted key.
C12_OverwriteFrame ==
    [][(lastOp'.op = "insert" /\ lastOp'.replaced) =>
         LET before == Entries(trie, <<>>)
             after == Entries(trie', <<>>)
         IN  /\ Shape(trie') = Shape(trie)
             /\ Cardinality(after) = Cardinality(before)
             /\ Cardinality(before) = Cardinality(DOMAIN inserted)
             /\ \A e \in before \ after :
                   \E k \in DOMAIN inserted :
                       /\ from_raw(k, TRUE) = e[1]
                       /\ inserted'[k] # inserted[k]
                       /\ <<e[1], inserted'[k]>> \in after
                       /\ \A o \in DOMAIN inserted \ {k} : inserted'[o] = inserted[o]]_vars

\* An overwrite has happened in a trie with an Extension, a Branch holding a
\* value and both values in use.
C12_Witness ==
    /\ lastOp.op = "insert" /\ lastOp.replaced
    /\ \E n \in Nodes(trie) : n.t = "Extension"
    /\ \E n \in Nodes(trie) : n.t = "Branch" /\ n.value # None
    /\ {e[2] : e \in Entries(trie, <<>>)} = Values
\* Reading RLP back: the number held by the k bytes of bs from position p, the
\* size of the header of the item at p, the size of the whole item, and the
\* number of items between p and end.
RECURSIVE BeValue(_, _, _)
BeValue(bs, p, k) ==
    IF k = 0 THEN 0 ELSE BeValue(bs, p, k - 1) * 256 + bs[p + k - 1][1]

HeaderLength(bs, p) ==
    LET b == bs[p][1]
    IN  CASE b < 128 -> 0
          [] b < 184 -> 1
          [] b < 192 -> 1 + (b - 183)
          [] b < 248 -> 1
          [] OTHER -> 1 + (b - 247)

ItemLength(bs, p) ==
    LET b == bs[p][1]
    IN  CASE b < 128 -> 1
          [] b < 184 -> 1 + (b - 128)
          [] b < 192 -> 1 + (b - 183) + BeValue(bs, p + 1, b - 183)
          [] b < 248 -> 1 + (b - 192)
          [] OTHER -> 1 + (b - 247) + BeValue(bs, p + 1, b - 247)

RECURSIVE ItemCount(_, _, _)
ItemCount(bs, p, end) ==
    IF p > end THEN 0 ELSE 1 + ItemCount(bs, p + ItemLength(bs, p), end)

IsListOf(bs, n) ==
    /\ bs # <<>> /\ bs[1][1] >= 192
    /\ ItemLength(bs, 1) = Len(bs)
    /\ ItemCount(bs, 1 + HeaderLength(bs, 1), Len(bs)) = n

\* C13: a Legacy receipt encodes as the list of its four fields alone; a
\* receipt of type EIP2930, EIP1559 or EIP4844 encodes as the one byte 0x01,
\* 0x02 or 0x03 followed by the bytes the same receipt encodes to as Legacy.
C13_ReceiptEnvelope ==
    (output # None /\ input.kind = "receipt") =>
        LET r == input.v
            payload == TransactionReceipt_encode([r EXCEPT !.receipt.tx_type = Legacy])
            encoded == output[1].encoded
            type_byte == CASE r.receipt.tx_type = EIP2930 -> 1
                           [] r.receipt.tx_type = EIP1559 -> 2
                           [] r.receipt.tx_type = EIP4844 -> 3
                           [] OTHER -> 0
        IN  /\ (\A i \in DOMAIN payload : ~IsRun(payload[i])) => IsListOf(payload, 4)
            /\ r.receipt.tx_type = Legacy => encoded = payload
            /\ r.receipt.tx_type # Legacy => encoded = << <<type_byte>> >> \o payload

\* a typed receipt with logs has been encoded
C13_Witness ==
    /\ output # None /\ input.kind = "receipt"
    /\ input.v.receipt.tx_type = EIP4844
    /\ Len(input.v.receipt.logs) = 2
    /\ output[1].encoded[1] = <<3>>

\* C14: for a receipt of every type and size, the size where the four fields
\* take 65535 bytes included, length() is the number of bytes encode() writes.
C14_LengthIsEncodedLength ==
    (output # None /\ input.kind = "receipt") =>
        output[1].length = Width(output[1].encoded)
\* the position after n items that start at p
RECURSIVE SkipItems(_, _, _)
SkipItems(bs, p, n) ==
    IF n = 0 THEN p ELSE SkipItems(bs, p + ItemLength(bs, p), n - 1)

\* the bytes of an encoded header after its fifteen mandatory fields
OptionalTail(encoded) ==
    SubSeq(encoded, SkipItems(encoded, 1 + HeaderLength(encoded, 1), 15), Len(encoded))

\* the optional fields in their order, each with its encoding when present
\* and the byte that stands for it when absent
Optionals(h) ==
    <<[present |-> IsSome(h.base_fee_per_gas), placeholder |-> 128,
       encoded |-> IF IsSome(h.base_fee_per_gas)
                   THEN U256_encode(U256_from(h.base_fee_per_gas[1])) ELSE <<>>],
      [present |-> IsSome(h.withdrawals_root), placeholder |-> 128,
       encoded |-> IF IsSome(h.withdrawals_root)
                   THEN H256_encode(h.withdrawals_root[1]) ELSE <<>>],
      [present |-> IsSome(h.blob_gas_used), placeholder |-> 192,
       encoded |-> IF IsSome(h.blob_gas_used)
                   THEN U256_encode(U256_from(h.blob_gas_used[1])) ELSE <<>>],
      [present |-> IsSome(h.excess_blob_gas), placeholder |-> 192,
       encoded |-> IF IsSome(h.excess_blob_gas)
                   THEN U256_encode(U256_from(h.excess_blob_gas[1])) ELSE <<>>],
      [present |-> IsSome(h.parent_beacon_block_root), placeholder |-> 0,
       encoded |-> IF IsSome(h.parent_beacon_block_root)
                   THEN H256_encode(h.parent_beacon_block_root[1]) ELSE <<>>]>>

HexPrefixBytes(p, encoded) ==
    LET n == Len(p.hex_data)
        odd == n % 2
    IN  /\ encoded[1][1] = (IF p.leaf THEN 32 ELSE 0) + 16 * odd
                            + (IF odd = 1 THEN p.hex_data[1] ELSE 0)
        /\ \A i \in 1..(n \div 2) :
              /\ encoded[i + 1][1] \div 16 = p.hex_data[odd + 2 * i - 1]
              /\ encoded[i + 1][1] % 16 = p.hex_data[odd + 2 * i]

\* C17 as stated: the hex-prefix encoding of a path of n nibbles is
\* ceil(n/2)+1 bytes long, its first byte is (is_leaf << 5) | (odd << 4) |
\* first_nibble_if_odd, and the other nibbles are packed high-low in pairs.
C17_HexPrefixCeil ==
    (output # None /\ input.kind = "path") =>
        /\ Len(output[1].encoded) = (Len(input.v.hex_data) + 1) \div 2 + 1
        /\ HexPrefixBytes(input.v, output[1].encoded)

\* C17 amended: the encoding is floor(n/2)+1 bytes long (the first nibble of an
\* odd path shares the first byte with the flags); the first byte and the
\* packing are as stated.
C17_HexPrefixFloor ==
    (output # None /\ input.kind = "path") =>
        /\ Len(output[1].encoded) = Len(input.v.hex_data) \div 2 + 1
        /\ \A i \in DOMAIN output[1].encoded : output[1].encoded[i][1] \in 0..255
        /\ HexPrefixBytes(input.v, output[1].encoded)

\* an odd leaf path of three nibbles: two bytes
C17_Witness ==
    /\ output # None /\ input.kind = "path"
    /\ input.v = [hex_data |-> <<15, 0, 1>>, leaf |-> TRUE]
    /\ output[1].encoded = Bytes(<<63, 1>>)

\* reading the hex-prefix encoding back
hex_prefix_decode(encoded) ==
    LET first == encoded[1][1]
        rest == [i \in 1..(2 * (Len(encoded) - 1)) |->
                    IF i % 2 = 1 THEN encoded[1 + (i + 1) \div 2][1] \div 16
                    ELSE encoded[1 + i \div 2][1] % 16]
    IN  [hex_data |-> (IF (first \div 16) % 2 = 1 THEN <<first % 16>> ELSE <<>>) \o rest,
         leaf |-> first \div 32 = 1]

\* C18: two paths with their flags that have the same hex-prefix encoding are
\* the same path with the same flag, and reading the encoding back gives the
\* path and the flag.
C18_HexPrefixLossless ==
    (output # None /\ input.kind = "path") =>
        /\ \A p \in PathInputs :
              encode_path_leaf(p.hex_data, p.leaf) = output[1].encoded => p = input.v
        /\ hex_prefix_decode(output[1].encoded) = input.v

\* an even path without the leaf flag that begins with the nibble 0, next to
\* the odd path <<0>> and the empty path
C18_Witness ==
    /\ output # None /\ input.kind = "path"
    /\ input.v = [hex_data |-> <<0, 0>>, leaf |-> FALSE]
    /\ output[1].encoded = Bytes(<<0, 0>>)
    /\ encode_path_leaf(<<0>>, FALSE) = Bytes(<<16>>)
    /\ encode_path_leaf(<<>>, FALSE) = Bytes(<<0>>)
\* the big-endian bytes of a u64 without the leading zero bytes
Minimal(be) ==
    LET nonzero == {i \in DOMAIN be : be[i] # 0}
    IN  IF nonzero = {} THEN <<>>
        ELSE SubSeq(be, CHOOSE i \in nonzero : \A j \in nonzero : i <= j, Len(be))

\* C20: U256::from(x) holds x big-endian in its last eight bytes behind 24
\* zero bytes, and its RLP is the RLP of the big-endian bytes of x without
\* leading zeros: 0x80 for zero, the byte itself for a value below 0x80,
\* and 0x80 + n followed by the n bytes otherwise.
C20_U256OfU64 ==
    (output # None /\ input.kind = "u64") =>
        LET be == input.v.be
            u == output[1].u256
            encoded == output[1].encoded
            minimal == Minimal(be)
            small == \A i \in 1..4 : be[i] = 0 /\ be[5] < 128
            x == BeValue(Bytes(be), 5, 4)
        IN  /\ Len(u) = 32
            /\ \A i \in 1..24 : u[i] = <<0>>
            /\ \A i \in 1..8 : u[24 + i] = <<be[i]>>
            /\ minimal = <<>> => encoded = Bytes(<<128>>)
            /\ (Len(minimal) = 1 /\ minimal[1] < 128) => encoded = Bytes(minimal)
            /\ (Len(minimal) > 1 \/ (Len(minimal) = 1 /\ minimal[1] >= 128)) =>
                  /\ encoded = Bytes(<<128 + Len(minimal)>> \o minimal)
                  /\ encoded[2] # <<0>>
            /\ small => /\ U256_from(x) = u
                         /\ uint_encode(x) = encoded

\* a value with a zero byte in the middle and the top byte set
C20_Witness ==
    /\ output # None /\ input.kind = "u64"
    /\ input.v.be = <<128, 0, 0, 0, 0, 0, 0, 127>>
    /\ output[1].encoded = Bytes(<<136, 128, 0, 0, 0, 0, 0, 0, 127>>)
\* the reference to a child as the rule states it: 0x80 for Empty, the
\* child's RLP itself when it is shorter than 32 bytes, the keccak of the RLP
\* as a 32-byte string otherwise
rule_reference(child) ==
    IF child.t = "Empty" THEN Bytes(<<EMPTY_STRING_CODE>>)
    ELSE LET rlp == encode_node(child)
         IN  IF Width(rlp) < 32 THEN rlp ELSE H256_encode(rlp)

\* C19: in the encoding from which the root is computed, every child of a
\* Branch slot and every child of an Extension appears as its own RLP,
\* unchanged, when that RLP is shorter than 32 bytes, as the 32-byte keccak of
\* its RLP otherwise, and an Empty child as the single byte 0x80.
C19_ChildReference ==
    \A n \in Nodes(trie) :
        /\ n.t = "Branch" =>
              \A i \in 1..16 :
                  BranchNode_encode_slot(branch_slot(encode_node(n.children[i])))
                      = rule_reference(n.children[i])
        /\ n.t = "Extension" =>
              H256_encode(H256_from_slice(encode_node(n.node))) = rule_reference(n.node)

\* ------------------------------------------------------------ pallet claims
\* the step is a submit_proof call of the signed submitter
Submits == lastOp'.op = "submit_proof" /\ lastOp'.origin = ALICE

\* the proof and the chain of the call of the step
Submitted == EventProofs[lastOp'.proof]
SubmittedChain == lastOp'.typed_chain_id

IsJson(id) == id \in DOMAIN EventProofs

HeaderKnown(c, id) ==
    IsJson(id) /\ finalized_execution_blocks(c, EventProofs[id].block_header.number) # None

HashMatches(c, id) ==
    /\ HeaderKnown(c, id)
    /\ finalized_execution_blocks(c, EventProofs[id].block_header.number)
           = Some(EventProofs[id].block_hash)

\* validate() returns an error
ValidateFails(id) == Validated[id] \notin {"Ok", "Abort"}

\* validate() returns Ok for a proof of a finalized block of the chain
Valid(c, id) == HashMatches(c, id) /\ Validated[id] = "Ok"

Rejections ==
    {"DeserializeFail", "HeaderHashDoesNotExist", "BlockHashesDoNotMatch",
     "VerifyProofFail"}

\* the checks after the decoding of the bytes, the first failing one deciding
LaterChecks(c, id) ==
    /\ IsJson(id) /\ ~HeaderKnown(c, id) => result' = "HeaderHashDoesNotExist"
    /\ HeaderKnown(c, id) /\ ~HashMatches(c, id) => result' = "BlockHashesDoNotMatch"
    /\ HashMatches(c, id) /\ ValidateFails(id) => result' = "VerifyProofFail"

\* C21 as stated: bytes that are not the JSON of an EventProof are rejected
\* with DeserializeFail, an unknown header with HeaderHashDoesNotExist, another
\* block hash with BlockHashesDoNotMatch and a failing validate() with
\* VerifyProofFail, the first failing check deciding; a rejected call leaves
\* the storage and the balances as they were and deposits no event.
C21_RejectsBeforeState ==
    [][Submits =>
         /\ ~IsJson(lastOp'.proof) => result' = "DeserializeFail"
         /\ LaterChecks(SubmittedChain, lastOp'.proof)
         /\ result' \in Rejections => pallet' = pallet /\ output' = <<>>]_vars

\* C21 amended: bytes that are not UTF-8 are rejected with
\* ConvertToStringFailed before the JSON is looked at; DeserializeFail is the
\* error of a UTF-8 text that is not the JSON of an EventProof.  The other
\* three checks follow in the order stated, and every rejected call leaves the
\* storage and the balances as they were and deposits no event.
C21_RejectsBeforeStateUtf8 ==
    [][Submits =>
         /\ lastOp'.proof = NotUtf8 => result' = "ConvertToStringFailed"
         /\ lastOp'.proof = NotJson => result' = "DeserializeFail"
         /\ LaterChecks(SubmittedChain, lastOp'.proof)
         /\ result' \in Rejections \cup {"ConvertToStringFailed"}
                => pallet' = pallet /\ output' = <<>>]_vars

\* a proof of another receipt is rejected on a chain that watches the
\* contract and has fees, after a receipt was processed
C21_Witness ==
    /\ lastOp.op = "submit_proof"
    /\ lastOp.proof = SwappedReceipt
    /\ result = "VerifyProofFail"
    /\ pallet.ProcessedReceiptsHash # {}
    /\ pallet.ProofDeposit[GOERLI_CHAIN] > 0

\* the key of the receipt of the call in ProcessedReceiptsHash
SubmittedKey == <<SubmittedChain, Submitted.transaction_receipt_hash>>

\* the step is a submit_proof call with a proof that passes every check
SubmitsValid == Submits /\ Valid(SubmittedChain, lastOp'.proof)

\* the step moves the amount from the one account to the other
Pays(source, dest, amount) ==
    /\ pallet'.balances[source] = pallet.balances[source] - amount
    /\ pallet'.balances[dest] = pallet.balances[dest] + amount

\* the step records the receipt of the call in both maps
Records ==
    /\ SubmittedKey \notin pallet.ProcessedReceiptsHash
    /\ SubmittedKey \in pallet'.ProcessedReceiptsHash
    /\ <<SubmittedChain, Submitted.block_header.number,
         Submitted.transaction_receipt_hash>> \in DOMAIN pallet'.ProcessedReceipts

\* no entry leaves ProcessedReceiptsHash
NeverRemoved == pallet.ProcessedReceiptsHash \subseteq pallet'.ProcessedReceiptsHash

\* the submitter gains only in the call that records the receipt
RewardedOnce ==
    Submits /\ pallet'.balances[ALICE] > pallet.balances[ALICE] => Records

\* a valid submission of a processed receipt pays the deposit to the treasury
LaterPaysDeposit ==
    SubmitsValid /\ SubmittedKey \in pallet.ProcessedReceiptsHash
        => Pays(ALICE, TREASURY, pallet.ProofDeposit[SubmittedChain])

\* C22: for each (chain, receipt hash) at most one call transfers the reward,
\* an entry of ProcessedReceiptsHash is never removed, and every later valid
\* submission of the receipt pays the proof deposit to the treasury.
C22_NoDuplicateRewards ==
    [][NeverRemoved /\ RewardedOnce /\ LaterPaysDeposit]_vars

\* C23: a submit_proof call that returns Ok moves exactly one amount: the
\* reward from the treasury to the submitter when the receipt is newly
\* recorded, the deposit from the submitter to the treasury otherwise; no
\* receipt is recorded without the reward having been paid.
C23_OkMovesOneAmount ==
    [][Submits /\ result' = "Ok" =>
         IF SubmittedKey \in pallet'.ProcessedReceiptsHash \ pallet.ProcessedReceiptsHash
         THEN Pays(TREASURY, ALICE, pallet.ProofReward[SubmittedChain])
         ELSE Pays(ALICE, TREASURY, pallet.ProofDeposit[SubmittedChain])]_vars

\* a log of the receipt carries an address of the list
SomeLogWatched(receipt, addresses) ==
    \E i \in DOMAIN receipt.receipt.logs, j \in DOMAIN addresses :
        receipt.receipt.logs[i].address = addresses[j]

\* the call is a valid proof of a receipt that is not processed, on a chain
\* with a list of watched addresses
SubmitsUnprocessed ==
    /\ SubmitsValid
    /\ SubmittedKey \notin pallet.ProcessedReceiptsHash
    /\ pallet.WatchedContracts[SubmittedChain] # None

SubmittedWatched ==
    SomeLogWatched(Submitted.transaction_receipt,
                   pallet.WatchedContracts[SubmittedChain][1])

NothingRecorded ==
    /\ pallet'.ProcessedReceipts = pallet.ProcessedReceipts
    /\ pallet'.ProcessedReceiptsHash = pallet.ProcessedReceiptsHash

\* a call that returns records the receipt exactly when a log carries a
\* watched address
RecordedIffWatched ==
    SubmitsUnprocessed /\ result' = "Ok"
        => IF SubmittedWatched THEN Records ELSE NothingRecorded

\* C24: a valid proof of an unprocessed receipt on a chain with a list of
\* watched addresses is recorded and rewarded if and only if a log address is
\* a watched address; when none is, nothing is recorded and the call returns
\* Ok and charges the deposit.
C24_RecordedIffWatched ==
    [][SubmitsUnprocessed =>
         IF SubmittedWatched
         THEN Records /\ Pays(TREASURY, ALICE, pallet.ProofReward[SubmittedChain])
         ELSE /\ NothingRecorded
              /\ result' = "Ok"
              /\ Pays(ALICE, TREASURY, pallet.ProofDeposit[SubmittedChain])]_vars

\* C25: a valid proof for a chain without a list of watched addresses fails
\* with NoMonitoredAddressesForChain and leaves ProcessedReceipts,
\* ProcessedReceiptsHash and the balance of the submitter as they were.
C25_NoListNoChange ==
    [][SubmitsValid /\ pallet.WatchedContracts[SubmittedChain] = None =>
         /\ result' = "NoMonitoredAddressesForChain"
         /\ NothingRecorded
         /\ pallet'.balances[ALICE] = pallet.balances[ALICE]]_vars

\* a valid proof was refused on a chain that charges a deposit
C25_Witness ==
    /\ lastOp.op = "submit_proof"
    /\ lastOp.proof = ValidProof0
    /\ result = "NoMonitoredAddressesForChain"
    /\ pallet.ProofDeposit[lastOp.typed_chain_id] > 0
    /\ pallet.balances[ALICE] > 0

\* the step is an update_watching_address call of the privileged origin
\* that returns Ok
Watches ==
    /\ lastOp'.op = "update_watching_address"
    /\ lastOp'.origin = "Root"
    /\ result' = "Ok"

Occurs(address, addresses) == \E i \in DOMAIN addresses : addresses[i] = address

\* C26: after update_watching_address with add = true the address is in the
\* list of the chain, which is created if there was none; after add = false
\* the list holds no occurrence of the address, and a chain that had a list
\* still has one, be it empty; the lists of the other chains are untouched.
C26_WatchedList ==
    [][Watches =>
         LET c == lastOp'.typed_chain_id
             old == pallet.WatchedContracts
             new == pallet'.WatchedContracts
         IN  /\ lastOp'.add => new[c] # None /\ Occurs(lastOp'.address, new[c][1])
             /\ ~lastOp'.add =>
                  /\ new[c] # None => ~Occurs(lastOp'.address, new[c][1])
                  /\ old[c] # None => new[c] # None
             /\ \A d \in TypedChainIds \ {c} : new[d] = old[d]]_vars

\* an address was removed from a list that then is empty, while the other
\* chain keeps its two addresses
C26_Witness ==
    /\ lastOp.op = "update_watching_address"
    /\ lastOp.origin = "Root"
    /\ ~lastOp.add
    /\ result = "Ok"
    /\ pallet.WatchedContracts[lastOp.typed_chain_id] = Some(<<>>)
    /\ \E d \in TypedChainIds :
          pallet.WatchedContracts[d] = Some(<<Contract2, Contract1>>)

\* ------------------------------------------------------------ relayer claims
\* a step of the operation op
Step(op) == lastOp'.op = op

\* the block of row i as select_blocks_to_process returns it
Returned(d, i) ==
    [block_height |-> d.blocks[i].block_height,
     block_hash |-> d.blocks[i].block_hash,
     block_header |-> from_json(d.blocks[i].block_header)]

\* the header of row i was bloom positive for a watched address
InsertedPositive(d, i) ==
    \E a \in DOMAIN watch_addresses :
        check_address(from_json(d.blocks[i].block_header).logs_bloom,
                      watch_addresses[a])

\* the rows inserted bloom positive, not marked since and below max_block
Eligible(d, max_block) ==
    {i \in DOMAIN d.blocks :
        /\ InsertedPositive(d, i)
        /\ i \notin d.marked_rows
        /\ d.blocks[i].block_height < max_block}

\* rows is a list of distinct rows of S of ascending height, and no row of S
\* left out is below one of the list
LowestOf(d, rows, S) ==
    /\ \A i \in DOMAIN rows : rows[i] \in S
    /\ \A i, j \in DOMAIN rows : i < j =>
          /\ rows[i] # rows[j]
          /\ d.blocks[rows[i]].block_height <= d.blocks[rows[j]].block_height
    /\ \A e \in S : (\A i \in DOMAIN rows : rows[i] # e) =>
          \A i \in DOMAIN rows :
              d.blocks[rows[i]].block_height <= d.blocks[e].block_height

\* C27: select_blocks_to_process(max_block, limit) returns the stored blocks
\* that were inserted bloom positive, were not marked processed and are
\* below max_block: the lowest limit of them (all, if there are fewer) in
\* ascending order of height, each with the hash and the header of its
\* insertion; a block inserted bloom negative is not among them.
C27_SelectPending ==
    [][Step("select_blocks_to_process") =>
          LET S == Eligible(db, lastOp'.max_block)
          IN  /\ Len(output') = Min(lastOp'.limit, Cardinality(S))
              /\ \E rows \in [DOMAIN output' -> DOMAIN db.blocks] :
                    /\ LowestOf(db, rows, S)
                    /\ \A i \in DOMAIN output' : output'[i] = Returned(db, rows[i])]_vars

\* a selection of one block, after another block was marked and with a bloom
\* negative block in the table
C27_Witness ==
    /\ lastOp.op = "select_blocks_to_process"
    /\ lastOp.limit = 1
    /\ Len(output) = 1
    /\ db.marked_rows # {}
    /\ Cardinality(Eligible(db, MaxHeight + 1)) = 1
    /\ \E i \in DOMAIN db.blocks : ~InsertedPositive(db, i)

\* no block returned by a selection has a height mark_block_processed has
\* returned for
NoMarkedHeightSelected ==
    Step("select_blocks_to_process") =>
        \A i \in DOMAIN output' : output'[i].block_height \notin db.marked

\* C28: once mark_block_processed(h) has returned, no later
\* select_blocks_to_process returns a block of height h, whatever both loops
\* of the relayer do in between.
C28_ProcessedPermanent == [][NoMarkedHeightSelected]_vars

\* the same where block_height is a key of the table
C28_ProcessedPermanentKeyed == [][db.unique => NoMarkedHeightSelected]_vars

\* a selection that returns a block after another height was marked and a
\* block of the marked height was offered to the table again
C28_Witness ==
    /\ lastOp.op = "select_blocks_to_process"
    /\ db.unique
    /\ db.marked # {}
    /\ output # <<>>
    /\ \E i \in DOMAIN db.blocks :
          /\ db.blocks[i].block_height \notin db.marked
          /\ \E j \in DOMAIN db.blocks : j < i /\ j \in db.marked_rows

\* ------------------------------------------------------------ tamper claims
\* C29: for a trie, an inserted key with its proof from merkle_proof and a
\* leaf that is not the value of the key, merkle_root of the proof and the
\* leaf is not the root of the trie; and validate accepts, under a header
\* with that root, no receipt but the one stored at the key.
C29_TamperDetected ==
    [][/\ Step("merkle_root") /\ lastOp'.leaf # inserted[lastOp'.key]
          => output' # [panic |-> FALSE, root |-> root_hash(trie)]
       /\ Step("validate") /\ result' = "Ok"
          => receipt_value(lastOp'.receipt) = inserted[lastOp'.key]]_vars

\* the short value with a zero byte behind it is claimed for a key that holds
\* the short value below a branch, and the root is another
C29_Witness ==
    /\ lastOp.op = "merkle_root"
    /\ inserted[lastOp.key] = ShortValue
    /\ lastOp.leaf = ShortValue \o Bytes(<<0>>)
    /\ ProofFor(lastOp.key).proof # <<>>
    /\ ~output.panic
    /\ output.root # root_hash(trie)

\* ------------------------------------------------------------- client claims
\* the header of row i
StoredHeader(d, i) == from_json(d.blocks[i].block_header)

\* the blocks of the batch, the oldest first, that are not what the checks
\* ask for: the first block of the first batch has no parent to differ from
Violating(d, faults) ==
    {i \in DOMAIN faults :
        faults[i] # "none" /\ ~(i = 1 /\ d.blocks = <<>> /\ faults[i] = "parent")}

\* the blocks of the batch before the first that violates a check
BeforeFirstViolation(d, faults) ==
    {i \in DOMAIN faults : \A j \in Violating(d, faults) : i < j}

\* a row stored by the step follows the row stored before it, or a row of
\* the greatest height if it is the first the step stores, and its hash is
\* the hash of its header
StoredChecked(i) ==
    /\ db'.blocks[i].block_hash = HeaderHash(StoredHeader(db', i))
    /\ IF i > Len(db.blocks) + 1
       THEN StoredHeader(db', i).parent_hash = db'.blocks[i - 1].block_hash
       ELSE db.blocks # <<>> =>
               Some(StoredHeader(db', i).parent_hash) \in latest_fetched_block_hashes(db)

\* process_fetched_blocks stores checked blocks only, and none from the first
\* block that violates a check on
StopsAtFirstViolation ==
    Step("process_fetched_blocks") =>
        /\ SubSeq(db'.blocks, 1, Len(db.blocks)) = db.blocks
        /\ \A i \in (Len(db.blocks) + 1)..Len(db'.blocks) : StoredChecked(i)
        /\ Len(db'.blocks) - Len(db.blocks)
              <= Cardinality(BeforeFirstViolation(db, lastOp'.faults))
        /\ result' = "Ok" <=>
              Len(db'.blocks) - Len(db.blocks) = Len(lastOp'.faults)
        /\ Violating(db, lastOp'.faults) # {} /\ result' # "insert failed" =>
              /\ Len(db'.blocks) - Len(db.blocks)
                    = Cardinality(BeforeFirstViolation(db, lastOp'.faults))
              /\ result' \in {"Block parent hash mismatch", "Block hash mismatch"}

\* every stored block but the first follows the block stored before it
HashLinked(d) ==
    \A i \in 2..Len(d.blocks) :
        StoredHeader(d, i).parent_hash = d.blocks[i - 1].block_hash

\* the checks of process_fetched_blocks as the program makes them
StoredBlocksChecked == [][StopsAtFirstViolation]_vars

\* C30: every block process_fetched_blocks stores has the hash of the block
\* stored immediately before it as parent hash and the hash it was fetched by
\* as the hash of its header, no block is stored from the first violation on,
\* and so the stored blocks always form one contiguous hash-linked chain.
C30_HashLinkedChain == [][StopsAtFirstViolation /\ HashLinked(db')]_vars

\* ------------------------------------------------------ watched list claims
\* the step is an update_watching_address call
UpdatesWatching == lastOp'.op = "update_watching_address"

\* the list of the chain of the call is full before the step
FullList ==
    /\ pallet.WatchedContracts[lastOp'.typed_chain_id] # None
    /\ Len(pallet.WatchedContracts[lastOp'.typed_chain_id][1]) = MaxWatched

\* C38: the watched list of a chain never holds more addresses than its
\* bound: update_watching_address with add = true on a full list fails with
\* TooManyAddresses, leaves the list unchanged and emits no
\* AddedContractAddress event; a call of a non-privileged origin fails
\* without changing the list.
C38_BoundedWatchedList ==
    [][UpdatesWatching =>
         /\ \A c \in TypedChainIds :
               pallet'.WatchedContracts[c] # None =>
                  Len(pallet'.WatchedContracts[c][1]) <= MaxWatched
         /\ lastOp'.origin = "Root" /\ lastOp'.add /\ FullList =>
               /\ result' = "TooManyAddresses"
               /\ pallet'.WatchedContracts = pallet.WatchedContracts
               /\ \A i \in DOMAIN output' :
                     output'[i].event # "AddedContractAddress"
         /\ lastOp'.origin # "Root" =>
               /\ result' # "Ok"
               /\ pallet'.WatchedContracts = pallet.WatchedContracts]_vars

\* the privileged origin was refused one more address on a full list
C38_Witness ==
    /\ lastOp.op = "update_watching_address"
    /\ lastOp.origin = "Root"
    /\ lastOp.add
    /\ result = "TooManyAddresses"
    /\ output = <<>>
    /\ pallet.WatchedContracts[lastOp.typed_chain_id] # None
    /\ Len(pallet.WatchedContracts[lastOp.typed_chain_id][1]) = MaxWatched

\* ---------------------------------------------------- finalization claims
\* the step hands the blocks of a finality update to process_fetched_blocks
HandsOver == lastOp'.op \in {"tick", "fetch"} /\ lastOp'.handed # None

\* the row insert_block writes for the block n of the chain
ChainRow(n) ==
    [block_height |-> n, block_hash |-> Chain[n].hash,
     block_header |-> to_string(Chain[n].header),
     is_processed |-> Chain[n].header.logs_bloom # AllBits]

\* C31: when the latest fetched height is L and the finalized block has a
\* number F > L, collect_blocks_after_finality_update collects exactly the
\* F - L blocks of the heights L+1..F, each once, by following the parent
\* hashes backwards from F, and they are processed in ascending order of
\* height.
C31_CollectsMissingBlocks ==
    [][HandsOver =>
         LET c == lastOp'.handed[1]
             F == c.finalized_block[1].number
             L == c.latest
             blocks == c.blocks_to_process
         IN  L >= 0 /\ F > L =>
               /\ Len(blocks) = F - L
               /\ \A i \in 1..(F - L) : blocks[i][1] = Chain[F - i + 1].header
               /\ blocks[1][2] = c.finalized_block[1].hash
               /\ \A i \in 2..(F - L) : blocks[i][2] = blocks[i - 1][1].parent_hash
               /\ result' = "Ok"
               /\ db'.blocks = db.blocks \o [i \in 1..(F - L) |-> ChainRow(L + i)]]_vars

\* three blocks were collected after the table had blocks, and stored
C31_Witness ==
    /\ lastOp.op = "fetch"
    /\ lastOp.handed # None
    /\ Len(lastOp.handed[1].blocks_to_process) = 3
    /\ lastOp.handed[1].latest > 0
    /\ result = "Ok"
    /\ Len(db.blocks) > 3

\* a turn of the while loop whose fetch or parse failed
FetchFails == lastOp'.op = "fetch" /\ lastOp'.outcome # "ok"

\* the finality update was given up after too many failures in a row
Aborted ==
    /\ lastOp.op = "fetch"
    /\ result = "Multiple retries happened"
    /\ client.pc = "tick"

\* C32: in the backward fetch a failed fetch or parse is retried for the
\* same block; up to RETRIES failures in a row are retried and the next one
\* aborts the finality update with an error before any block of it is
\* stored; a fetch that succeeds resets the count of failures to 0. The
\* finalization loop survives the abort and tries again on its next tick.
C32_RetriesThenAborts ==
    /\ [][lastOp'.op = "fetch" =>
            /\ FetchFails /\ lastOp'.failures <= RETRIES =>
                 /\ client' = [client EXCEPT !.repeat = lastOp'.failures]
                 /\ db' = db
            /\ FetchFails /\ lastOp'.failures > RETRIES =>
                 /\ lastOp'.failures = RETRIES + 1
                 /\ result' = "Multiple retries happened"
                 /\ db' = db
                 /\ client' = Ticking(client.latest_fetched_block,
                                      client.overflow_checks)
            /\ ~FetchFails =>
                 /\ lastOp'.failures = 0
                 /\ client'.repeat = 0]_vars
    /\ (Aborted ~> lastOp.op = "tick")

\* an update was given up at the failure after RETRIES retries, a block of
\* it being fetched already, and nothing is stored
C32_Witness ==
    /\ Aborted
    /\ lastOp.failures = RETRIES + 1
    /\ db.blocks = <<>>

\* C33: for every finalized number F and latest fetched height L with
\* F # L, F < L and F below the amount of the first run included, the
\* backward fetch ends with the height counter at L: the counter never
\* passes L, never wraps below zero, and the task does not end on the way.
C33_CounterReachesLatest ==
    /\ client.pc # "panicked"
    /\ client.pc = "fetch" =>
          /\ client.latest >= 0
          /\ client.current_block >= client.latest

\* ---------------------------------------------------- bloom processor claims
\* an iteration of run ends
Processes == lastOp'.op = "process"

\* a row of the height becomes processed
NewlyProcessed(height) ==
    \E r \in DOMAIN db.blocks :
        /\ db.blocks[r].block_height = height
        /\ ~db.blocks[r].is_processed
        /\ db'.blocks[r].is_processed

\* the index in the block of the receipt the RPC answered at index i
IndexInBlock(answer, i) == IF answer = "in order" THEN i ELSE 1 - i

\* receipt i of the blocks with logs carries a log of a watched address
CarriesWatchedLog(i, watched_address) ==
    \E l \in DOMAIN BlockReceipt(i).receipt.logs, a \in DOMAIN watched_address :
        BlockReceipt(i).receipt.logs[l].address = watched_address[a]

\* is_item_proved answered that receipt i of the block at place b is proved
ProvedOnChain(op, b, i) ==
    \E q \in DOMAIN op.proved :
        /\ q[1] = b
        /\ IndexInBlock(op.receipts[b], q[2]) = i
        /\ op.proved[q]

\* the proof of receipt i of the block at place b was built, submitted and
\* accepted
ProofAccepted(op, b, i) ==
    /\ op.nonce # None
    /\ \E k \in DOMAIN op.created :
          /\ op.created[k].block_height = op.blocks[b]
          /\ IndexInBlock(op.receipts[b], op.created[k].receipt_index) = i
          /\ op.sent[k] = "Ok"

\* C34: the bloom processor marks a block processed only if every receipt of
\* it that carries a log of a watched address is proved on the chain or had
\* its proof built, submitted and accepted.
C34_NoWatchedEventDropped ==
    [][Processes =>
          \A b \in DOMAIN lastOp'.blocks :
             NewlyProcessed(lastOp'.blocks[b]) =>
                \A i \in {0, 1} :
                   CarriesWatchedLog(i, lastOp'.watched_addresses) =>
                      \/ ProvedOnChain(lastOp', b, i)
                      \/ ProofAccepted(lastOp', b, i)]_vars

\* the rows of the height are unprocessed after the step, and a selection
\* with a greater bound holds the height again
StaysPending(height) ==
    /\ \A r \in DOMAIN db'.blocks :
          db'.blocks[r].block_height = height => ~db'.blocks[r].is_processed
    /\ \A max_block \in (height + 1)..(ChainTip + 1) :
          \E k \in DOMAIN select_blocks_to_process(db', max_block,
                                                   limit_processing_blocks_per_iteration) :
             select_blocks_to_process(db', max_block,
                                      limit_processing_blocks_per_iteration)[k].block_height
                 = height

\* the block at place b got a proof
ProofCreated(op, b) ==
    \E k \in DOMAIN op.created : op.created[k].block_height = op.blocks[b]

\* C35: a selected block whose receipts are not fetched, a block with a
\* proof when the nonce of the account cannot be read, and every selected
\* block while the watched addresses were never obtained, is not marked
\* processed in the iteration and is selected again by a later one.
C35_FailuresLeaveBlocksPending ==
    [][/\ Processes =>
             \A b \in DOMAIN lastOp'.blocks :
                \/ lastOp'.receipts[b] = "error"
                \/ lastOp'.nonce = None /\ ProofCreated(lastOp', b)
                => StaysPending(lastOp'.blocks[b])
       /\ lastOp'.op = "select" /\ processor'.watched_addresses = None =>
             /\ processor'.pc = "loop"
             /\ \A b \in DOMAIN lastOp'.selected : StaysPending(lastOp'.selected[b])]_vars

\* the receipts of the first of two selected blocks were not fetched and the
\* second was marked: the first is unprocessed
C35_Witness ==
    /\ lastOp.op = "process"
    /\ Len(lastOp.blocks) = 2
    /\ lastOp.receipts[1] = "error"
    /\ \E r \in DOMAIN db.blocks :
          db.blocks[r].block_height = lastOp.blocks[1] /\ ~db.blocks[r].is_processed
    /\ \E r \in DOMAIN db.blocks :
          db.blocks[r].block_height = lastOp.blocks[2] /\ db.blocks[r].is_processed

\* C36: with the nonce n of the account read, the proof at place i of the
\* batch (from 0) is submitted with nonce n + i, so no two proofs of the batch
\* share a nonce, and the list returned pairs the result of the proof at
\* place i with the height of its block, in the order of the batch.
C36_NoncesInOrder ==
    [][Processes /\ lastOp'.nonce # None =>
          /\ Len(lastOp'.submitted) = Len(lastOp'.created)
          /\ Len(lastOp'.returned) = Len(lastOp'.created)
          /\ \A k \in DOMAIN lastOp'.created :
                /\ lastOp'.submitted[k].nonce = lastOp'.nonce[1] + (k - 1)
                /\ lastOp'.submitted[k].block_height = lastOp'.created[k].block_height
                /\ lastOp'.submitted[k].receipt =
                       H256_hash(TransactionReceipt_encode(
                           RpcReceipts("in order")[lastOp'.created[k].receipt_index + 1]))
                /\ lastOp'.returned[k] = <<lastOp'.created[k].block_height, lastOp'.sent[k]>>
          /\ \A k, l \in DOMAIN lastOp'.submitted :
                k # l => lastOp'.submitted[k].nonce # lastOp'.submitted[l].nonce]_vars

\* a batch of proofs of two blocks whose results differ
C36_Witness ==
    /\ lastOp.op = "process"
    /\ lastOp.nonce # None
    /\ Len(lastOp.created) >= 3
    /\ \E k, l \in DOMAIN lastOp.created :
          /\ lastOp.created[k].block_height # lastOp.created[l].block_height
          /\ lastOp.sent[k] # lastOp.sent[l]

\* a row of the height is unprocessed and the height is below the bound, the
\* number of the finalized execution header of the chain minus 1
AwaitsProcessing(n) ==
    /\ \E r \in DOMAIN db.blocks :
          db.blocks[r].block_height = n /\ ~db.blocks[r].is_processed
    /\ n < input.finalized_execution_header - 1

RowProcessed(n) ==
    \E r \in DOMAIN db.blocks : db.blocks[r].block_height = n /\ db.blocks[r].is_processed

\* an iteration has ended in which the receipts of every selected block were
\* fetched, the nonce was read and every proof was accepted
IterationSucceeded ==
    /\ lastOp.op = "process"
    /\ \A b \in DOMAIN lastOp.receipts : lastOp.receipts[b] # "error"
    /\ lastOp.nonce # None
    /\ \A k \in DOMAIN lastOp.sent : lastOp.sent[k] = "Ok"

\* C37: while the client stores blocks, if an iteration whose calls all
\* succeed ends again as long as a block awaits processing, every block stored
\* as bloom positive whose height is below the number of the finalized
\* execution header minus 1 is marked processed in the end; and no block at or
\* above that bound is ever selected.
C37_EventuallyProcessed ==
    /\ ((\E n \in 0..ChainTip : AwaitsProcessing(n)) ~> IterationSucceeded)
          => \A n \in 0..ChainTip : AwaitsProcessing(n) ~> RowProcessed(n)
    /\ [][lastOp'.op = "select" =>
             \A b \in DOMAIN lastOp'.selected :
                lastOp'.selected[b] < input.finalized_execution_header - 1]_vars

\* a block below the bound was marked after its proof was accepted while
\* an unprocessed block at the bound was left out of the selection
C37_Witness ==
    /\ lastOp.op = "process"
    /\ Len(lastOp.blocks) = 1
    /\ \E k \in DOMAIN lastOp.returned :
          lastOp.returned[k][2] = "Ok" /\ RowProcessed(lastOp.returned[k][1])
    /\ \E r \in DOMAIN db.blocks :
          /\ ~db.blocks[r].is_processed
          /\ db.blocks[r].block_height = input.finalized_execution_header - 1

====
